---- MODULE Spec2Model ----
(***************************************************************************)
(* The capture analyzer (analyzer.js v13): block splitting, command        *)
(* detection, the ROUTES dispatch of parseFile with its configuration      *)
(* pre-pass, the interface registry, the final dedup sweep, and the batch  *)
(* loop of analyzeDirectory.                                               *)
(*                                                                         *)
(* Text.  A JavaScript string is a sequence of tokens; a text with several *)
(* lines is a sequence of such lines.  A token is a maximal run of word    *)
(* characters ("display", "GE1", "current-configuration"), one space " ",  *)
(* a run of two or more spaces "  ", or one punctuation character.  The    *)
(* regular expressions of the source are translated token by token.        *)
(***************************************************************************)
EXTENDS Naturals, Sequences, FiniteSets, TLC

\* ---------------------------------------------------------------- bounds
MaxChunks == 2
MaxFiles == 3
MaxChars == 3

\* ------------------------------------------------------------ JS values
MARKER == "=========######HUAWEI#####========="
NULL == <<"null">>
UNDEF == <<"undefined">>

Ws == {" ", "  "}
Punct == {"<", ">", "[", "]", "#", "!", ":", MARKER}
IsWord(t) == t \notin Ws /\ t \notin Punct

Range(s) == { s[i] : i \in 1..Len(s) }
Last(s) == s[Len(s)]
Front(s) == SubSeq(s, 1, Len(s) - 1)

\* String.prototype.toLowerCase on one token: the cased tokens of the inputs.
lowerTok(t) ==
  CASE t = "GE1" -> "ge1"
    [] t = "GE2" -> "ge2"
    [] t = "Display" -> "display"
    [] t = "Constructor" -> "constructor"
    [] t = "Interface" -> "interface"
    [] t = "Info" -> "info"
    [] t = "Warning" -> "warning"
    [] t = "Error" -> "error"
    [] t = "WAN" -> "wan"
    [] t = "LAN" -> "lan"
    [] t = "R1" -> "r1"
    [] t = "R2" -> "r2"
    [] t = "PHY" -> "phy"
    [] t = "Protocol" -> "protocol"
    [] t = "Software" -> "software"
    [] t = "Version" -> "version"
    [] t = "V8" -> "v8"
    [] t = "A1" -> "a1"
    [] t = "A2" -> "a2"
    [] t = "BOOM" -> "boom"
    [] t = "TXT" -> "txt"
    [] t = "IP" -> "ip"
    [] t = "Address" -> "address"
    [] t = "VPN-Instance" -> "vpn-instance"
    [] t = "RouterID" -> "routerid"
    [] t = "Eth-Trunk" -> "eth-trunk"
    [] t = "Members" -> "members"
    [] t = "Master" -> "master"
    [] t = "State" -> "state"
    [] t = "Actor" -> "actor"
    [] t = "Partner" -> "partner"
    [] t = "Total" -> "total"
    [] t = "Summary" -> "summary"
    [] t = "Prefixes" -> "prefixes"
    [] OTHER -> t

RECURSIVE lower(_)
lower(s) == IF s = <<>> THEN <<>> ELSE <<lowerTok(Head(s))>> \o lower(Tail(s))

\* String.prototype.trim on one line.
RECURSIVE trimStart(_)
trimStart(l) == IF l # <<>> /\ Head(l) \in Ws THEN trimStart(Tail(l)) ELSE l

RECURSIVE trimEnd(_)
trimEnd(l) == IF l # <<>> /\ Last(l) \in Ws THEN trimEnd(Front(l)) ELSE l

trim(l) == trimEnd(trimStart(l))

IsBlank(l) == trim(l) = <<>>

\* String.prototype.trim on a text: blank lines at both ends go, the first
\* line loses its leading and the last line its trailing whitespace.
RECURSIVE dropBlankHead(_)
dropBlankHead(txt) ==
  IF txt # <<>> /\ IsBlank(Head(txt)) THEN dropBlankHead(Tail(txt)) ELSE txt

RECURSIVE dropBlankTail(_)
dropBlankTail(txt) ==
  IF txt # <<>> /\ IsBlank(Last(txt)) THEN dropBlankTail(Front(txt)) ELSE txt

trimText(txt) ==
  LET core == dropBlankTail(dropBlankHead(txt))
  IN  IF core = <<>> THEN <<>>
      ELSE IF Len(core) = 1 THEN <<trim(core[1])>>
      ELSE <<trimStart(core[1])>> \o SubSeq(core, 2, Len(core) - 1)
             \o <<trimEnd(Last(core))>>

\* normalizeKey: every run of characters outside [a-z0-9] becomes one "_",
\* the rest is lower-cased.  normTok is the image of one token.
normTok(t) ==
  CASE ~IsWord(t) -> <<"_">>
    [] t = "current-configuration" -> <<"current", "_", "configuration">>
    [] t = "vpn-instance" -> <<"vpn", "_", "instance">>
    [] t = "ntp-service" -> <<"ntp", "_", "service">>
    [] t = "unicast-server" -> <<"unicast", "_", "server">>
    [] OTHER -> <<lowerTok(t)>>

RECURSIVE normalizeKeyFrom(_, _)
normalizeKeyFrom(acc, s) ==
  IF s = <<>> THEN acc
  ELSE LET n == normTok(Head(s))
       IN  IF n = <<"_">> /\ acc # <<>> /\ Last(acc) = "_"
           THEN normalizeKeyFrom(acc, Tail(s))
           ELSE normalizeKeyFrom(acc \o n, Tail(s))

normalizeKey(s) == normalizeKeyFrom(<<>>, s)

\* ------------------------------------------ block splitting and detection
\* /^<[^>]+>/ : the line opens with a prompt "<host>".
RECURSIVE closesAngle(_)
closesAngle(l) ==
  IF l = <<>> THEN FALSE
  ELSE IF Head(l) = ">" THEN TRUE
  ELSE closesAngle(Tail(l))

PromptStart(l) ==
  /\ Len(l) >= 3
  /\ l[1] = "<"
  /\ l[2] # ">"
  /\ closesAngle(Tail(Tail(l)))

\* /^dis(?:play)?\s+/i
DisStart(l) ==
  /\ Len(l) >= 2
  /\ lowerTok(l[1]) \in {"dis", "display"}
  /\ l[2] \in Ws

\* /^(dis(?:play)?\s+[a-z0-9\-]+(?:[\s\.][a-z0-9\-]+)*)/i : the length of the
\* match on line t, 0 when there is none.  After the first word the match goes
\* on over (one whitespace character or a dot, then a word) for as long as it can.
RECURSIVE cmdMatchEnd(_, _)
cmdMatchEnd(t, k) ==
  IF Len(t) >= k + 2 /\ t[k + 1] \in {" ", "."} /\ IsWord(t[k + 2])
  THEN cmdMatchEnd(t, k + 2)
  ELSE k

cmdMatchLen(t) ==
  IF DisStart(t) /\ Len(t) >= 3 /\ IsWord(t[3]) THEN cmdMatchEnd(t, 3) ELSE 0

\* what follows the first token c of a line
RECURSIVE afterTok(_, _)
afterTok(l, c) ==
  IF l = <<>> THEN <<>>
  ELSE IF Head(l) = c THEN Tail(l)
  ELSE afterTok(Tail(l), c)

\* /^\[~?[^\]]+\]/ : the line opens with a system-view prompt "[host]".
BracketStart(l) ==
  /\ Len(l) >= 3
  /\ l[1] = "["
  /\ l[2] # "]"
  /\ \E i \in 3..Len(l) : l[i] = "]"

\* COMMAND_REGEX on one line: an optional prompt, optional whitespace, then a
\* display command.
COMMAND_REGEX(l) ==
  LET rest == IF PromptStart(l) THEN afterTok(l, ">")
              ELSE IF BracketStart(l) THEN afterTok(l, "]")
              ELSE l
  IN  \/ cmdMatchLen(trimStart(rest)) > 0
      \/ cmdMatchLen(trimStart(l)) > 0

\* RAW_CONFIG_REGEX: some line starts with "#", "!Software Version",
\* "sysname" or "clock timezone".
rawConfigLine(l) ==
  /\ l # <<>>
  /\ \/ l[1] = "#"
     \/ lowerTok(l[1]) = "sysname"
     \/ /\ Len(l) >= 4
        /\ l[1] = "!" /\ lowerTok(l[2]) = "software" /\ l[3] = " "
        /\ lowerTok(l[4]) = "version"
     \/ /\ Len(l) >= 3
        /\ lowerTok(l[1]) = "clock" /\ l[2] = " " /\ lowerTok(l[3]) = "timezone"

RAW_CONFIG_REGEX(raw) == \E i \in 1..Len(raw) : rawConfigLine(raw[i])

\* cur(?:rent-configuration)? opens the token
CurTok(t) == lowerTok(t) \in {"cur", "current-configuration"}

\* /dis(?:play)?\s+cur(?:rent-configuration)?/i anywhere in the text
hasDisCur(raw) ==
  \E i \in 1..Len(raw) : \E j \in 1..Len(raw[i]) :
    /\ j + 2 <= Len(raw[i])
    /\ lowerTok(raw[i][j]) \in {"dis", "display"}
    /\ raw[i][j + 1] \in Ws
    /\ CurTok(raw[i][j + 2])

\* /^dis(?:play)?\s+cur(?:rent-configuration)?/i on a label
isDisCur(cmd) == DisStart(cmd) /\ Len(cmd) >= 3 /\ CurTok(cmd[3])

\* raw.split(MARKER): the captures write the delimiter on a line of its own.
IsMarkerLine(l) == trim(l) = <<MARKER>>

RECURSIVE splitAtMarker(_, _)
splitAtMarker(cur, rest) ==
  IF rest = <<>> THEN <<cur>>
  ELSE IF IsMarkerLine(Head(rest)) THEN <<cur>> \o splitAtMarker(<<>>, Tail(rest))
  ELSE splitAtMarker(Append(cur, Head(rest)), Tail(rest))

\* Variant: the split consumes the line it splits at.
RECURSIVE splitHeuristicEating(_, _)
splitHeuristicEating(cur, rest) ==
  IF rest = <<>> THEN <<cur>>
  ELSE IF PromptStart(Head(rest)) \/ DisStart(Head(rest))
       THEN <<cur>> \o splitHeuristicEating(<<>>, Tail(rest))
  ELSE splitHeuristicEating(Append(cur, Head(rest)), Tail(rest))

\* raw.split(/\n(?=<[^>]+>)|(?=^dis(?:play)?\s+)/im): a new piece starts at
\* every line that opens with a prompt or with a display command.
RECURSIVE splitHeuristic(_, _)
splitHeuristic(cur, rest) ==
  IF rest = <<>> THEN <<cur>>
  ELSE IF PromptStart(Head(rest)) \/ DisStart(Head(rest))
       THEN <<cur>> \o splitHeuristic(<<Head(rest)>>, Tail(rest))
  ELSE splitHeuristic(Append(cur, Head(rest)), Tail(rest))

RECURSIVE trimAndDropEmpty(_)
trimAndDropEmpty(parts) ==
  IF parts = <<>> THEN <<>>
  ELSE LET c == trimText(Head(parts))
       IN  (IF c = <<>> THEN <<>> ELSE <<c>>) \o trimAndDropEmpty(Tail(parts))

splitBlocks(raw) ==
  IF \E i \in 1..Len(raw) : IsMarkerLine(raw[i])
  THEN trimAndDropEmpty(splitAtMarker(<<>>, raw))
  ELSE trimAndDropEmpty(splitHeuristic(<<>>, raw))

\* detectCommand: the label of a block.
BarePrompt(t) ==
  /\ Len(t) >= 2
  /\ \/ t[1] = "<" /\ Last(t) = ">"
     \/ t[1] = "[" /\ Last(t) = "]"

SysMessage(t) ==
  Len(t) >= 2 /\ lowerTok(t[1]) \in {"info", "warning", "error"} /\ t[2] = ":"

RECURSIVE detectCommand(_)
detectCommand(block) ==
  IF block = <<>> THEN <<"unknown">>
  ELSE LET t == trim(Head(block))
       IN  IF t = <<>> \/ BarePrompt(t) \/ SysMessage(t)
           THEN detectCommand(Tail(block))
           ELSE IF cmdMatchLen(t) > 0 THEN SubSeq(t, 1, cmdMatchLen(t))
           ELSE t

\* stripCommandFromBlock: drops the first line when it is a command line.
stripCommandFromBlock(block) ==
  IF Len(block) <= 1 THEN block
  ELSE IF COMMAND_REGEX(block[1]) THEN trimText(Tail(block))
  ELSE block

\* cleanTailPrompt: s.replace(/\n<[^>]+>\s*$/m, "").trim().  With the m flag
\* "$" ends any line, so the first bare prompt line after line 1 goes, with
\* the blank lines right after it.
IsPromptOnly(l) == PromptStart(l) /\ trim(afterTok(l, ">")) = <<>>

RECURSIVE removeFirstPrompt(_)
removeFirstPrompt(rest) ==
  IF rest = <<>> THEN <<>>
  ELSE IF IsPromptOnly(Head(rest)) THEN dropBlankHead(Tail(rest))
  ELSE <<Head(rest)>> \o removeFirstPrompt(Tail(rest))

cleanTailPrompt(s) ==
  IF s = <<>> THEN <<>>
  ELSE trimText(<<Head(s)>> \o removeFirstPrompt(Tail(s)))

\* ------------------------------------------------------------- ROUTES
\* A pattern is a sequence of elements read against the tokens of a label:
\* lit(S) one token whose lower-case form is in S, ws for \s+, any for .*,
\* wsEnd for (\s|$), optWs(S) for an optional (token of S, then \s+).  A
\* pattern has no end anchor: what follows its last element is not read.
lit(S) == [k |-> "lit", s |-> S]
ws == [k |-> "ws", s |-> {}]
any == [k |-> "any", s |-> {}]
wsEnd == [k |-> "wsEnd", s |-> {}]
optWs(S) == [k |-> "optWs", s |-> S]
dis == lit({"dis", "display"})
Digits == {"0", "1", "2", "3", "100", "200"}

RECURSIVE matchPat(_, _)
matchPat(pat, toks) ==
  IF pat = <<>> THEN TRUE
  ELSE LET e == Head(pat)
           more == Tail(pat)
       IN  CASE e.k = "lit" ->
                  toks # <<>> /\ lowerTok(Head(toks)) \in e.s /\ matchPat(more, Tail(toks))
             [] e.k = "ws" ->
                  toks # <<>> /\ Head(toks) \in Ws /\ matchPat(more, Tail(toks))
             [] e.k = "any" ->
                  \E n \in 0..Len(toks) : matchPat(more, SubSeq(toks, n + 1, Len(toks)))
             [] e.k = "wsEnd" ->
                  toks = <<>> \/ (Head(toks) \in Ws /\ matchPat(more, Tail(toks)))
             [] e.k = "optWs" ->
                  \/ matchPat(more, toks)
                  \/ /\ Len(toks) >= 2
                     /\ lowerTok(toks[1]) \in e.s
                     /\ toks[2] \in Ws
                     /\ matchPat(more, SubSeq(toks, 3, Len(toks)))

R(pat, fn) == [rx |-> pat, fn |-> fn]

ROUTES == <<
  R(<<dis, ws, lit({"version"})>>, "p_display_version"),
  R(<<dis, ws, lit({"router"}), ws, lit({"id"}), ws, lit({"vpn-instance"})>>, "p_display_router_id_vrf"),
  R(<<dis, ws, lit({"router"}), ws, lit({"id"})>>, "p_display_router_id"),
  R(<<dis, ws, lit({"mpls"}), ws, lit({"lsr-id"})>>, "p_display_mpls_lsr_id"),
  R(<<dis, ws, lit({"clock"})>>, "p_display_clock"),
  R(<<dis, ws, lit({"patch-info", "patch-information"})>>, "p_display_patch_information"),
  R(<<dis, ws, lit({"startup"})>>, "p_display_startup"),
  R(<<dis, ws, lit({"ntp", "ntp-service"}), any, lit({"status"})>>, "p_display_ntp_status"),
  R(<<dis, ws, lit({"ntp", "ntp-service"}), any, lit({"unicast-server"})>>, "p_display_ntp_unicast"),
  R(<<dis, ws, lit({"cpu-usage"})>>, "p_display_cpu_usage"),
  R(<<dis, ws, lit({"health"}), ws, lit({"verbose"})>>, "p_display_health_verbose"),
  R(<<lit({"dir"}), ws, lit({"cfcard"}), lit({":"}), lit({":"})>>, "p_dir_cfcard"),
  R(<<dis, ws, lit({"device"}), ws, lit(Digits)>>, "p_display_power_any"),
  R(<<dis, ws, lit({"power"})>>, "p_display_power_any"),
  R(<<dis, ws, lit({"temperature"})>>, "p_display_temperature"),
  R(<<dis, ws, lit({"fan"})>>, "p_display_fan"),
  R(<<dis, ws, lit({"alarm"}), ws, lit({"active"}), ws, lit({"verbose"})>>, "p_display_alarm_all"),
  R(<<dis, ws, lit({"alarm"}), wsEnd>>, "p_display_alarm_all"),
  R(<<dis, ws, lit({"device"}), ws, lit({"pic-status"})>>, "p_display_device_pic_status"),
  R(<<dis, ws, lit({"device"}), wsEnd>>, "p_display_device"),
  R(<<dis, ws, lit({"elabel"})>>, "p_display_elabel"),
  R(<<dis, ws, lit({"optical-module"}), ws, lit({"verbose", "brief"})>>, "p_display_optical_module_any"),
  R(<<dis, ws, lit({"interface"}), ws, lit({"ethernet"}), ws, lit({"brief"})>>, "p_display_interface_ethernet_brief"),
  R(<<dis, ws, lit({"int", "interface"}), ws, lit({"brief"})>>, "p_display_interface_brief"),
  R(<<dis, ws, lit({"ip"}), ws, lit({"int", "interface"})>>, "p_display_ip_interface"),
  R(<<dis, ws, lit({"cur", "current-configuration"})>>, "p_display_current_configuration"),
  R(<<dis, ws, lit({"arp"}), ws, lit({"all"})>>, "p_display_arp_all"),
  R(<<dis, ws, lit({"arp"}), ws, lit({"statistics"})>>, "p_display_arp_statistics"),
  R(<<dis, ws, lit({"mac-address"}), ws, lit({"dynamic", "summary"})>>, "p_display_mac_address_any"),
  R(<<dis, ws, lit({"vlan"}), wsEnd>>, "p_display_vlan"),
  R(<<dis, ws, lit({"vxlan"}), ws, lit({"vni"}), ws, lit({"all"})>>, "p_display_vxlan_vni_all"),
  R(<<dis, ws, lit({"evpn"}), ws, lit({"vpn-instance"})>>, "p_display_evpn_vpn_instance"),
  R(<<dis, ws, lit({"eth-trunk"})>>, "p_display_eth_trunk"),
  R(<<dis, ws, lit({"e-trunk"})>>, "p_display_e_trunk"),
  R(<<dis, ws, lit({"lacp"}), ws, lit({"peer"})>>, "p_display_lacp_peer"),
  R(<<dis, ws, lit({"bfd"}), ws, lit({"session"})>>, "p_display_bfd_session_all"),
  R(<<dis, ws, lit({"bfd"}), ws, lit({"configuration"})>>, "p_display_bfd_configuration_all"),
  R(<<dis, ws, lit({"ospf"}), ws, lit({"peer"}), ws, lit({"brief"})>>, "p_display_ospf_peer_brief"),
  R(<<dis, ws, lit({"ospf"}), ws, lit({"brief"})>>, "p_display_ospf_brief"),
  R(<<dis, ws, lit({"segment-routing"})>>, "p_display_segment_routing"),
  R(<<dis, ws, lit({"mpls"}), ws, lit({"lsp"}), ws, lit({"statistics"})>>, "p_display_mpls_lsp_statistics"),
  R(<<dis, ws, lit({"tunnel-info"}), ws, lit({"statistics"})>>, "p_display_tunnel_info_statistics"),
  R(<<dis, ws, lit({"bgp"}), ws, lit({"peer"})>>, "p_display_bgp_peer"),
  R(<<dis, ws, lit({"bgp"}), ws, lit({"vpnv4"}), any, lit({"peer"})>>, "p_display_bgp_vpnv4_peer"),
  R(<<dis, ws, lit({"bgp"}), ws, lit({"evpn"}), ws, lit({"peer"})>>, "p_display_bgp_evpn_peer"),
  R(<<dis, ws, lit({"vpn-instance"})>>, "p_display_vpn_instance"),
  R(<<dis, ws, lit({"ip"}), ws, lit({"routing-table"}), ws, optWs({"all-vpn-instance"}), lit({"statistics"})>>, "p_display_ip_routing_table_statistics"),
  R(<<dis, ws, lit({"license"}), ws, lit({"esn"})>>, "p_display_license_esn"),
  R(<<dis, ws, lit({"license"}), ws, lit({"verbose"})>>, "p_display_license_verbose")
>>

\* Variant: the scan does not stop at the first match, the last match is used.
lastRoute(cmd) ==
  IF \E i \in 1..Len(ROUTES) : matchPat(ROUTES[i].rx, cmd)
  THEN CHOOSE i \in 1..Len(ROUTES) :
         /\ matchPat(ROUTES[i].rx, cmd)
         /\ \A j \in (i + 1)..Len(ROUTES) : ~matchPat(ROUTES[j].rx, cmd)
  ELSE 0

\* the index of the first ROUTES entry whose pattern matches cmd, 0 for none
firstRoute(cmd) ==
  IF \E i \in 1..Len(ROUTES) : matchPat(ROUTES[i].rx, cmd)
  THEN CHOOSE i \in 1..Len(ROUTES) :
         /\ matchPat(ROUTES[i].rx, cmd)
         /\ \A j \in 1..(i - 1) : ~matchPat(ROUTES[j].rx, cmd)
  ELSE 0

\* --------------------------------------------------------------- model
\* newModel(): the fields of the model that the operations below write.
newModel ==
  [ hostname |-> NULL,
    sysname |-> NULL,
    ssh_users |-> <<>>,
    ntp_servers |-> <<>>,
    interfaces |-> <<>>,
    vrfs |-> <<>>,
    router_ids |-> <<>>,
    isis_processes |-> <<>>,
    config_peers |-> <<>>,
    alarms |-> <<>>,
    bfd_sessions |-> <<>>,
    eth_trunks |-> <<>>,
    table_summary |-> <<>>,
    raw_sections |-> <<>> ]

\* An interface record { name, ... }: a field not set yet is UNDEF, and order
\* lists the keys in the order they were first set (JSON.stringify's order).
newInterface(name) ==
  [ name |-> name, status |-> UNDEF, protocol |-> UNDEF, in_util |-> UNDEF,
    out_util |-> UNDEF, description |-> UNDEF, ip |-> UNDEF, mask |-> UNDEF,
    duplex |-> UNDEF, bandwidth_mbps |-> UNDEF, vpn_instance |-> UNDEF,
    order |-> <<"name">> ]

setField(rec, k, v) ==
  [rec EXCEPT ![k] = v,
              !.order = IF \E i \in 1..Len(rec.order) : rec.order[i] = k
                        THEN rec.order ELSE Append(rec.order, k)]

\* uniqBy(arr, key): the first item of every key, in order.
RECURSIVE uniqByFrom(_, _, _)
uniqByFrom(arr, key, seen) ==
  IF arr = <<>> THEN <<>>
  ELSE LET k == Head(arr)[key]
       IN  IF k \in seen THEN uniqByFrom(Tail(arr), key, seen)
           ELSE <<Head(arr)>> \o uniqByFrom(Tail(arr), key, seen \cup {k})

uniqBy(arr, key) == uniqByFrom(arr, key, {})

\* ensureInterface(model, name) on st = [m |-> model, map |-> ensureInterface._map]:
\* the state after the call and the index of the record returned, 0 when the
\* call returns null or undefined.
\* Variant: the key is the name as written, without lower().
ensureInterfaceNoLower(st, name) ==
  IF name = <<>> THEN [st |-> st, idx |-> 0]
  ELSE IF name \in DOMAIN st.map
       THEN [st |-> st,
             idx |-> IF st.map[name] <= Len(st.m.interfaces) THEN st.map[name] ELSE 0]
  ELSE LET n == Len(st.m.interfaces) + 1
       IN  [st |-> [m |-> [st.m EXCEPT !.interfaces = Append(@, newInterface(name))],
                    map |-> [k \in DOMAIN st.map \cup {name} |->
                               IF k = name THEN n ELSE st.map[k]]],
            idx |-> n]

\* Variant: no map.get(key); every call pushes a record.
ensureInterfaceNoLookup(st, name) ==
  IF lower(name) = <<>> THEN [st |-> st, idx |-> 0]
  ELSE LET n == Len(st.m.interfaces) + 1
       IN  [st |-> [m |-> [st.m EXCEPT !.interfaces = Append(@, newInterface(name))],
                    map |-> [k \in DOMAIN st.map \cup {lower(name)} |->
                               IF k = lower(name) THEN n ELSE st.map[k]]],
            idx |-> n]

ensureInterface(st, name) ==
  LET key == lower(name)
  IN  IF key = <<>> THEN [st |-> st, idx |-> 0]
      ELSE IF key \in DOMAIN st.map
           THEN [st |-> st,
                 idx |-> IF st.map[key] <= Len(st.m.interfaces) THEN st.map[key] ELSE 0]
      ELSE LET n == Len(st.m.interfaces) + 1
           IN  [st |-> [m |-> [st.m EXCEPT !.interfaces = Append(@, newInterface(name))],
                        map |-> [k \in DOMAIN st.map \cup {key} |->
                                   IF k = key THEN n ELSE st.map[k]]],
                idx |-> n]

\* Variant: the record is built anew from the sighting.
setItfAnew(st, idx, k, v) ==
  [st EXCEPT !.m.interfaces[idx] = setField(newInterface(@.name), k, v)]

\* itf.<k> = v on the record at index idx
setItf(st, idx, k, v) ==
  [st EXCEPT !.m.interfaces[idx] = setField(@, k, v)]

\* ------------------------------------------------- token patterns
IPs == {"1.1.1.1", "2.2.2.2"}

\* l opens with the pattern p: "\\s" is \s+, "\\S" one token that is not
\* whitespace, "\\d" is \d+, "\\n" is [0-9.]+, any other entry is that word
\* read without case.
matchToks(l, p) ==
  /\ Len(l) >= Len(p)
  /\ \A i \in 1..Len(p) :
       CASE p[i] = "\\s" -> l[i] \in Ws
         [] p[i] = "\\S" -> l[i] \notin Ws
         [] p[i] = "\\d" -> l[i] \in Digits
         [] p[i] = "\\n" -> l[i] \in Digits \cup IPs
         [] OTHER -> lowerTok(l[i]) = p[i]

\* the first place of l where p matches, 0 for none
findToks(l, p) ==
  IF \E k \in 1..Len(l) : matchToks(SubSeq(l, k, Len(l)), p)
  THEN CHOOSE k \in 1..Len(l) :
         /\ matchToks(SubSeq(l, k, Len(l)), p)
         /\ \A j \in 1..(k - 1) : ~matchToks(SubSeq(l, j, Len(l)), p)
  ELSE 0

\* the first line of txt, from line i on, where p matches somewhere; 0 for none
RECURSIVE findLine(_, _, _)
findLine(txt, i, p) ==
  IF i > Len(txt) THEN 0
  ELSE IF findToks(txt[i], p) > 0 THEN i
  ELSE findLine(txt, i + 1, p)

\* the first line of txt, from line i on, that opens with a pattern of P after
\* its leading whitespace; 0 for none
RECURSIVE findLineStart(_, _, _)
findLineStart(txt, i, P) ==
  IF i > Len(txt) THEN 0
  ELSE IF \E p \in P : matchToks(trimStart(txt[i]), p) THEN i
  ELSE findLineStart(txt, i + 1, P)

\* the first line after line i that starts with one of the characters of S
RECURSIVE nextLineWith(_, _, _)
nextLineWith(txt, i, S) ==
  IF i + 1 > Len(txt) THEN 0
  ELSE IF txt[i + 1] # <<>> /\ txt[i + 1][1] \in S THEN i + 1
  ELSE nextLineWith(txt, i + 1, S)

\* /([\s\S]*?)(?=\n#)/ after a stanza head, under matchAll: the stanzas of txt
\* from line i on.  A stanza opens at a line that opens with a pattern of P
\* and runs to the next line that starts with a character of T; the search
\* goes on from that line; a head with no such line after it matches nothing.
RECURSIVE stanzas(_, _, _, _)
stanzas(txt, i, P, T) ==
  LET h == findLineStart(txt, i, P)
      j == nextLineWith(txt, h, T)
  IN  IF h = 0 \/ j = 0 THEN <<>>
      ELSE <<[head |-> trimStart(txt[h]), body |-> SubSeq(txt, h + 1, j - 1)]>>
             \o stanzas(txt, j, P, T)

\* the tokens after the first match of p in the lines of txt, <<>> for none
afterFirst(txt, p) ==
  LET i == findLine(txt, 1, p)
  IN  IF i = 0 THEN <<>>
      ELSE SubSeq(txt[i], findToks(txt[i], p) + Len(p), Len(txt[i]))

\* the token matched by the last entry of p at its first match in txt, NULL
\* for none
firstValue(txt, p) ==
  LET i == findLine(txt, 1, p)
  IN  IF i = 0 THEN NULL
      ELSE <<txt[i][findToks(txt[i], p) + Len(p) - 1]>>

\* ------------------------------------------------------ toInt, toFloat
\* A value is a string of characters, or undefined or null.  A number is
\* <<"number", sign, whole part, digits of the fraction>>; NaN is not one.
NaN == <<"NaN">>
DigitChars == {"0", "4", "5"}
Chars == DigitChars \cup {"-", ".", "%", "N", "/", "A", " "}
number(sign, whole, frac) == <<"number", sign, whole, frac>>

digitOf(c) == CASE c = "0" -> 0 [] c = "4" -> 4 [] c = "5" -> 5

RECURSIVE valueOf(_, _)
valueOf(acc, ds) == IF ds = <<>> THEN acc ELSE valueOf(acc * 10 + digitOf(Head(ds)), Tail(ds))

RECURSIVE digitRun(_)
digitRun(s) ==
  IF s # <<>> /\ Head(s) \in DigitChars THEN <<Head(s)>> \o digitRun(Tail(s)) ELSE <<>>

\* String(v || ""): undefined, null and "" are falsy
stringOr(v) == IF v = UNDEF \/ v = NULL \/ v = <<>> THEN <<>> ELSE v

\* Variant: the minus sign is removed with the other characters.
keepCharsNoMinus(s, kept) == SelectSeq(s, LAMBDA c : c \in kept \ {"-"})

\* .replace(/[^0-9\-]/g, "") and .replace(/[^0-9.\-]/g, "")
keepChars(s, kept) == SelectSeq(s, LAMBDA c : c \in kept)

unsigned(s) == IF s # <<>> /\ Head(s) = "-" THEN Tail(s) ELSE s
signOf(s) == IF s # <<>> /\ Head(s) = "-" THEN "-" ELSE "+"

\* parseInt(s, 10): a sign, then the longest run of digits; NaN without a digit
parseInt(s) ==
  IF digitRun(unsigned(s)) = <<>> THEN NaN
  ELSE number(signOf(s), valueOf(0, digitRun(unsigned(s))), <<>>)

afterRun(s) == SubSeq(s, Len(digitRun(s)) + 1, Len(s))

fraction(s) == IF afterRun(s) # <<>> /\ Head(afterRun(s)) = "." THEN digitRun(Tail(afterRun(s))) ELSE <<>>

\* parseFloat(s): a sign, digits, then "." and digits; NaN without a digit
parseFloat(s) ==
  IF digitRun(unsigned(s)) = <<>> /\ fraction(unsigned(s)) = <<>> THEN NaN
  ELSE number(signOf(s), valueOf(0, digitRun(unsigned(s))), fraction(unsigned(s)))

\* Number.isFinite(n).  The values read here have at most MaxChars digits, far
\* from the range where parseInt gives Infinity.
isFinite(n) == n # NaN /\ n[1] = "number"

\* Variants: toInt and toFloat without the test of Number.isFinite.
toIntUnchecked(v) == parseInt(keepChars(stringOr(v), DigitChars \cup {"-"}))
toFloatUnchecked(v) == parseFloat(keepChars(stringOr(v), DigitChars \cup {".", "-"}))

finiteOrNull(n) == IF isFinite(n) THEN n ELSE NULL
toInt(v) == finiteOrNull(parseInt(keepChars(stringOr(v), DigitChars \cup {"-"})))
toFloat(v) == finiteOrNull(parseFloat(keepChars(stringOr(v), DigitChars \cup {".", "-"})))

Values == UNION { [1..n -> Chars] : n \in 0..MaxChars } \cup {UNDEF, NULL}

\* ------------------------------------------------------------ extractors
\* t.split(/\s{2,}/).map(s => s.trim()).filter(Boolean)
RECURSIVE splitWide(_, _)
splitWide(cur, rest) ==
  IF rest = <<>> THEN <<cur>>
  ELSE IF Head(rest) = "  " THEN <<cur>> \o splitWide(<<>>, Tail(rest))
  ELSE splitWide(Append(cur, Head(rest)), Tail(rest))

RECURSIVE trimAll(_)
trimAll(ps) ==
  IF ps = <<>> THEN <<>>
  ELSE (IF trim(Head(ps)) = <<>> THEN <<>> ELSE <<trim(Head(ps))>>) \o trimAll(Tail(ps))

columns(t) == trimAll(splitWide(<<>>, t))

\* /^(GigabitEthernet|X?GE|Eth|100GE|25GE|40GE|10GE|LoopBack|Ethernet|NULL|Vlanif)/i
\* on the first token of a row
IfaceToks == {"ge1", "ge2", "loopback0", "eth1"}
isIfaceRow(t) == t # <<>> /\ lowerTok(t[1]) \in IfaceToks

briefRow(st, ln) ==
  LET t == trim(ln)
      p == columns(t)
  IN  IF ~isIfaceRow(t) \/ Len(p) < 3 THEN st
      ELSE LET e == ensureInterface(st, p[1])
               s1 == setItf(setItf(e.st, e.idx, "status", p[2]), e.idx, "protocol", p[3])
               s2 == IF Len(p) >= 4 THEN setItf(s1, e.idx, "in_util", p[4]) ELSE s1
               s3 == IF Len(p) >= 5 THEN setItf(s2, e.idx, "out_util", p[5]) ELSE s2
           IN  IF e.idx = 0 THEN e.st ELSE s3

RECURSIVE p_display_interface_brief(_, _)
p_display_interface_brief(b, st) ==
  IF b = <<>> THEN st
  ELSE p_display_interface_brief(Tail(b), briefRow(st, Head(b)))

\* t.split(/\s+/)[0] on a trimmed row, (\S+) in a pattern
RECURSIVE nonWsRun(_)
nonWsRun(l) == IF l # <<>> /\ Head(l) \notin Ws THEN <<Head(l)>> \o nonWsRun(Tail(l)) ELSE <<>>

\* m[1].toUpperCase() on half|full, m[3].toUpperCase() on M|G
upperTok(t) ==
  CASE t = "full" -> "FULL" [] t = "half" -> "HALF" [] t = "g" -> "G" [] t = "m" -> "M"
    [] t = "k" -> "K"
    [] OTHER -> t

\* /\s(half|full)\s+(\d+)([MG])/i at place k of row t: the place after the
\* digits when it matches there, 0 when it does not
ethMatchAt(t, k) ==
  IF /\ k + 4 <= Len(t)
     /\ t[k] \in Ws /\ lowerTok(t[k + 1]) \in {"half", "full"} /\ t[k + 2] \in Ws
     /\ digitRun(SubSeq(t, k + 3, Len(t))) # <<>>
     /\ k + 3 + Len(digitRun(SubSeq(t, k + 3, Len(t)))) <= Len(t)
     /\ upperTok(t[k + 3 + Len(digitRun(SubSeq(t, k + 3, Len(t))))]) \in {"M", "G"}
  THEN k + 3 + Len(digitRun(SubSeq(t, k + 3, Len(t))))
  ELSE 0

ethMatch(t) ==
  IF \E k \in 1..Len(t) : ethMatchAt(t, k) > 0
  THEN CHOOSE k \in 1..Len(t) : ethMatchAt(t, k) > 0 /\ \A j \in 1..(k - 1) : ethMatchAt(t, j) = 0
  ELSE 0

\* unit === "G" ? num * 1000 : num, on the number toInt returned
timesUnit(num, unit) == IF unit = "G" THEN number(num[2], num[3] * 1000, <<>>) ELSE num

\* the fields of one row: the record at idx gets duplex and bandwidth_mbps
ethSet(e, t, k) ==
  IF e.idx = 0 THEN e.st
  ELSE setItf(setItf(e.st, e.idx, "duplex", <<upperTok(lowerTok(t[k + 1]))>>),
              e.idx, "bandwidth_mbps",
              timesUnit(toInt(digitRun(SubSeq(t, k + 3, Len(t)))), upperTok(t[ethMatchAt(t, k)])))

ethRow(st, t) ==
  IF t = <<>> \/ ethMatch(t) = 0 THEN st
  ELSE ethSet(ensureInterface(st, nonWsRun(t)), t, ethMatch(t))

RECURSIVE p_display_interface_ethernet_brief(_, _)
p_display_interface_ethernet_brief(b, st) ==
  IF b = <<>> THEN st
  ELSE p_display_interface_ethernet_brief(Tail(b), ethRow(st, trim(Head(b))))

\* One element of a pattern against one token: "\\s" is \s+, "\\S" a token
\* that is not whitespace, "\\n" is [0-9.]+, any other entry that word read
\* without case.
matchTok(tok, e) ==
  CASE e = "\\s" -> tok \in Ws
    [] e = "\\S" -> tok \notin Ws
    [] e = "\\n" -> tok \in IPs
    [] e = "\\d" -> tok \in Digits \cup DigitChars
    [] OTHER -> lowerTok(tok) = e

\* the place after the match of p at place k of line l, 0 for no match;
\* "\\s*" is optional whitespace
RECURSIVE matchEnd(_, _, _)
matchEnd(l, k, p) ==
  IF p = <<>> THEN k
  ELSE IF Head(p) = "\\s*"
       THEN matchEnd(l, IF k <= Len(l) /\ l[k] \in Ws THEN k + 1 ELSE k, Tail(p))
  ELSE IF k > Len(l) THEN 0
  ELSE IF matchTok(l[k], Head(p)) THEN matchEnd(l, k + 1, Tail(p))
  ELSE 0

\* part.match(p): the line and the place after the leftmost match, <<0, 0>> for none
hitLine(part, p) ==
  IF \E i \in 1..Len(part) : \E k \in 1..Len(part[i]) : matchEnd(part[i], k, p) > 0
  THEN CHOOSE i \in 1..Len(part) :
         /\ \E k \in 1..Len(part[i]) : matchEnd(part[i], k, p) > 0
         /\ \A j \in 1..(i - 1) : \A k \in 1..Len(part[j]) : matchEnd(part[j], k, p) = 0
  ELSE 0

hitEnd(l, p) ==
  matchEnd(l, CHOOSE k \in 1..Len(l) :
                /\ matchEnd(l, k, p) > 0
                /\ \A j \in 1..(k - 1) : matchEnd(l, j, p) = 0, p)

IfaceColon == <<"interface", "\\s*", ":", "\\s*", "\\S">>
IpAddress == <<"ip", "\\s*", "address", "\\s*", ":", "\\s*", "\\n", "\\s", "\\n">>
VpnInstance == <<"vpn-instance", "\\s*", ":">>

\* nameMatch[1]: (\S+) after "Interface :"
ipName(l) == nonWsRun(SubSeq(l, hitEnd(l, IfaceColon) - 1, Len(l)))

\* ipv4Match: itf.ip and itf.mask, when the part has an "IP Address :" line
ipSetAddr(st, idx, part) ==
  IF hitLine(part, IpAddress) = 0 THEN st
  ELSE setItf(setItf(st, idx, "ip",
                     <<part[hitLine(part, IpAddress)][hitEnd(part[hitLine(part, IpAddress)], IpAddress) - 3]>>),
              idx, "mask",
              <<part[hitLine(part, IpAddress)][hitEnd(part[hitLine(part, IpAddress)], IpAddress) - 1]>>)

\* vpnMatch[1].trim(): what follows "VPN-Instance :" on its line
vpnRest(l) == SubSeq(l, hitEnd(l, VpnInstance), Len(l))

ipSetVpn(st, idx, part) ==
  IF hitLine(part, VpnInstance) = 0 \/ vpnRest(part[hitLine(part, VpnInstance)]) = <<>> THEN st
  ELSE setItf(st, idx, "vpn_instance", trim(vpnRest(part[hitLine(part, VpnInstance)])))

ipSet(e, part) == IF e.idx = 0 THEN e.st ELSE ipSetVpn(ipSetAddr(e.st, e.idx, part), e.idx, part)

ipPart(st, part) ==
  IF hitLine(part, IfaceColon) = 0 THEN st
  ELSE ipSet(ensureInterface(st, ipName(part[hitLine(part, IfaceColon)])), part)

\* /Interface\s*:/i opens the line
IfaceColonStart(l) == matchEnd(l, 1, <<"interface", "\\s*", ":">>) > 0

\* blk.split(/\n(?=Interface\s*:)/i)
RECURSIVE splitIpParts(_, _)
splitIpParts(cur, rest) ==
  IF rest = <<>> THEN <<cur>>
  ELSE IF IfaceColonStart(Head(rest)) THEN <<cur>> \o splitIpParts(<<Head(rest)>>, Tail(rest))
  ELSE splitIpParts(Append(cur, Head(rest)), Tail(rest))

RECURSIVE ipParts(_, _)
ipParts(st, parts) ==
  IF parts = <<>> THEN st ELSE ipParts(ipPart(st, Head(parts)), Tail(parts))

ipText(blk) == IF blk = <<>> THEN <<>> ELSE splitIpParts(<<Head(blk)>>, Tail(blk))

p_display_ip_interface(b, st) == ipParts(st, ipText(cleanTailPrompt(b)))

\* p_display_current_configuration, section by section.
cfgSysname(txt, st) ==
  LET i == findLineStart(txt, 1, {<<"sysname", "\\s", "\\S">>})
  IN  IF i = 0 THEN st
      ELSE [st EXCEPT !.m.sysname = <<trimStart(txt[i])[3]>>]

RECURSIVE cfgNtp(_, _)
cfgNtp(txt, st) ==
  IF txt = <<>> THEN st
  ELSE LET t == trimStart(Head(txt))
           hit == matchToks(t, <<"ntp-service", "\\s", "unicast-server", "\\s", "\\n">>)
           vpn == IF matchToks(SubSeq(t, 6, Len(t)), <<"\\s", "vpn-instance", "\\s", "\\S">>)
                  THEN <<t[9]>> ELSE NULL
       IN  cfgNtp(Tail(txt),
                  IF hit
                  THEN [st EXCEPT !.m.ntp_servers = Append(@, [ip |-> <<t[5]>>, vpn_instance |-> vpn])]
                  ELSE st)

sshHead == {<<"ssh", "\\s", "user", "\\s", "\\S">>}

\* the first line after line i that is "ssh user ..." or starts with "#"
RECURSIVE sshEnd(_, _)
sshEnd(txt, i) ==
  IF i + 1 > Len(txt) THEN 0
  ELSE IF \/ txt[i + 1] # <<>> /\ txt[i + 1][1] = "#"
          \/ matchToks(trimStart(txt[i + 1]), <<"ssh", "\\s", "user">>)
       THEN i + 1
  ELSE sshEnd(txt, i + 1)

RECURSIVE cfgSsh(_, _, _)
cfgSsh(txt, i, st) ==
  LET h == findLineStart(txt, i, sshHead)
      j == sshEnd(txt, h)
  IN  IF h = 0 \/ j = 0 THEN st
      ELSE cfgSsh(txt, j,
             [st EXCEPT !.m.ssh_users =
                Append(@, [name |-> <<trimStart(txt[h])[5]>>, auth_type |-> NULL,
                           service_type |-> NULL, rsa_key |-> NULL])])

\* Variant: no entry is ever found.
vrfIndexNone(vrfs, name) == 0

\* model.protocols.vrfs.findIndex(v => v.name === name), 0 for -1
vrfIndex(vrfs, name) ==
  IF \E i \in 1..Len(vrfs) : vrfs[i].name = name
  THEN CHOOSE i \in 1..Len(vrfs) :
         vrfs[i].name = name /\ \A j \in 1..(i - 1) : vrfs[j].name # name
  ELSE 0

\* obj[k] = v on an object kept as the list of its <<key, value>> in insertion order
RECURSIVE setKey(_, _, _)
setKey(obj, k, v) ==
  IF obj = <<>> THEN <<<<k, v>>>>
  ELSE IF Head(obj)[1] = k THEN <<<<k, v>>>> \o Tail(obj)
  ELSE <<Head(obj)>> \o setKey(Tail(obj), k, v)

cfgVrf(st, z) ==
  LET name == <<z.head[3]>>
      window == <<SubSeq(z.head, 4, Len(z.head))>> \o z.body
      rid == firstValue(window, <<"router-id", "\\s", "\\n">>)
      af == (IF findLine(window, 1, <<"ipv4-family">>) > 0 THEN <<<<"ipv4">>>> ELSE <<>>)
            \o (IF findLine(window, 1, <<"ipv6-family">>) > 0 THEN <<<<"ipv6">>>> ELSE <<>>)
      entry == [name |-> name, af |-> IF af = <<>> THEN NULL ELSE af, router_id |-> rid]
      idx == vrfIndex(st.m.vrfs, name)
      s1 == IF idx > 0 THEN [st EXCEPT !.m.vrfs[idx] = entry]
            ELSE [st EXCEPT !.m.vrfs = Append(@, entry)]
  IN  IF rid = NULL THEN s1
      ELSE [s1 EXCEPT !.m.router_ids = setKey(@, name, rid)]

cfgIsis(st, z) ==
  LET hasId == matchToks(z.head, <<"isis", "\\s", "\\d">>)
      block == <<SubSeq(z.head, IF hasId THEN 4 ELSE 2, Len(z.head))>> \o z.body
  IN  [st EXCEPT !.m.isis_processes =
         Append(@, [id |-> IF hasId THEN <<z.head[3]>> ELSE <<"1">>,
                    network_entity |-> firstValue(block, <<"network-entity", "\\s", "\\S">>),
                    is_level |-> firstValue(block, <<"is-level", "\\s", "\\S">>)])]

\* the matches of /peer\s+([0-9.]+)\s+as-number\s+(\d+)/gi in one line, from
\* token k on
peerPat == <<"peer", "\\s", "\\n", "\\s", "as-number", "\\s", "\\d">>

RECURSIVE peersOfLine(_, _)
peersOfLine(l, k) ==
  IF k > Len(l) THEN <<>>
  ELSE IF matchToks(SubSeq(l, k, Len(l)), peerPat)
       THEN <<[ip |-> l[k + 2], as |-> l[k + 6]]>> \o peersOfLine(l, k + 7)
  ELSE peersOfLine(l, k + 1)

RECURSIVE peersOf(_)
peersOf(block) ==
  IF block = <<>> THEN <<>>
  ELSE peersOfLine(Head(block), 1) \o peersOf(Tail(block))

\* One configured peer.  peerBlock is the match of
\* /peer\s+<ip>([\s\S]*?)(?=\n\s*peer|\n\s*#|$)/im: with the m flag "$" ends
\* the line, so it is what is left of the first line that names the peer.
cfgPeer(st, block, local_as, pr) ==
  LET peerBlock == afterFirst(block, <<"peer", "\\s", pr.ip>>)
      d == findToks(peerBlock, <<"description", "\\s", "\\S">>)
  IN  [st EXCEPT !.m.config_peers =
         Append(@, [peer_ip |-> <<pr.ip>>, local_as |-> local_as, peer_as |-> <<pr.as>>,
                    description |-> IF d = 0 THEN NULL
                                    ELSE trim(SubSeq(peerBlock, d + 2, Len(peerBlock))),
                    bfd |-> IF findToks(peerBlock, <<"bfd", "\\s", "enable">>) > 0
                            THEN <<"true">> ELSE <<"false">>])]

RECURSIVE cfgPeers(_, _, _, _)
cfgPeers(st, block, local_as, prs) ==
  IF prs = <<>> THEN st
  ELSE cfgPeers(cfgPeer(st, block, local_as, Head(prs)), block, local_as, Tail(prs))

cfgBgp(st, z) ==
  LET hasAs == matchToks(z.head, <<"bgp", "\\s", "\\d">>)
      block == <<SubSeq(z.head, IF hasAs THEN 4 ELSE 2, Len(z.head))>> \o z.body
  IN  cfgPeers(st, block, IF hasAs THEN <<z.head[3]>> ELSE NULL, peersOf(block))

\* the matches of /alarm-name\s+(\S+)\s+severity\s+(\S+)/gi
alarmPat == <<"alarm-name", "\\s", "\\S", "\\s", "severity", "\\s", "\\S">>

RECURSIVE alarmsOfLine(_, _)
alarmsOfLine(l, k) ==
  IF k > Len(l) THEN <<>>
  ELSE IF matchToks(SubSeq(l, k, Len(l)), alarmPat)
       THEN <<[sequence |-> NULL, level |-> <<l[k + 6]>>, severity |-> <<l[k + 6]>>,
               date |-> NULL, time |-> NULL, description |-> <<l[k + 2]>>,
               state |-> <<"Configured">>]>> \o alarmsOfLine(l, k + 7)
  ELSE alarmsOfLine(l, k + 1)

RECURSIVE alarmsOf(_)
alarmsOf(block) ==
  IF block = <<>> THEN <<>>
  ELSE alarmsOfLine(Head(block), 1) \o alarmsOf(Tail(block))

\* /^\s*alarm/ also opens at a line "alarm-name ...": the five letters are the
\* head, and what is left of that token cannot start a match of alarmPat.
cfgAlarm(st, z) ==
  [st EXCEPT !.m.alarms = @ \o alarmsOf(<<Tail(z.head)>> \o z.body)]

\* for (const m of txt.matchAll(...)) over the stanzas zs
RECURSIVE eachStanza(_, _, _)
eachStanza(st, zs, kind) ==
  IF zs = <<>> THEN st
  ELSE eachStanza(CASE kind = "vrf" -> cfgVrf(st, Head(zs))
                    [] kind = "isis" -> cfgIsis(st, Head(zs))
                    [] kind = "bgp" -> cfgBgp(st, Head(zs))
                    [] kind = "alarm" -> cfgAlarm(st, Head(zs)),
                  Tail(zs), kind)

\* /^interface\s+/i
IfaceStart(l) == Len(l) >= 2 /\ lowerTok(l[1]) = "interface" /\ l[2] \in Ws

\* txt.split(/\n(?=interface\s+)/i)
RECURSIVE splitIface(_, _)
splitIface(cur, rest) ==
  IF rest = <<>> THEN <<cur>>
  ELSE IF IfaceStart(Head(rest)) THEN <<cur>> \o splitIface(<<Head(rest)>>, Tail(rest))
  ELSE splitIface(Append(cur, Head(rest)), Tail(rest))

ifaceBlocks(txt) ==
  IF txt = <<>> THEN <<>>
  ELSE SelectSeq(splitIface(<<Head(txt)>>, Tail(txt)),
                 LAMBDA blk : trimText(blk) # <<>> /\ IfaceStart(trimText(blk)[1]))

\* vrfMatch: /^\s*(?:ip\s+binding|vpn-instance)\s+([^\s\r\n]+)/im
VrfLine == {<<"ip", "\\s", "binding", "\\s", "\\S">>, <<"vpn-instance", "\\s", "\\S">>}

vrfWord(t) == IF lowerTok(t[1]) = "ip" THEN nonWsRun(SubSeq(t, 5, Len(t)))
              ELSE nonWsRun(SubSeq(t, 3, Len(t)))

cfgIfaceVrf(st, idx, blk) ==
  IF findLineStart(blk, 1, VrfLine) = 0 THEN st
  ELSE setItf(st, idx, "vpn_instance", vrfWord(trimStart(blk[findLineStart(blk, 1, VrfLine)])))

\* bwMatch: /^\s*(speed|bandwidth)\s+(\d+)(G|M|K)?/im on a line
bwLine(t) ==
  /\ Len(t) >= 3 /\ lowerTok(t[1]) \in {"speed", "bandwidth"} /\ t[2] \in Ws
  /\ digitRun(SubSeq(t, 3, Len(t))) # <<>>

RECURSIVE firstBwLine(_, _)
firstBwLine(blk, i) ==
  IF i > Len(blk) THEN 0
  ELSE IF bwLine(trimStart(blk[i])) THEN i
  ELSE firstBwLine(blk, i + 1)

bwUnit(t) ==
  IF Len(t) > 2 + Len(digitRun(SubSeq(t, 3, Len(t))))
     /\ upperTok(t[3 + Len(digitRun(SubSeq(t, 3, Len(t))))]) \in {"G", "M", "K"}
  THEN upperTok(t[3 + Len(digitRun(SubSeq(t, 3, Len(t))))])
  ELSE "M"

\* unit === "G" ? val * 1000 : unit === "K" ? Math.round(val / 1000) : val
bwValue(val, unit) ==
  IF unit = "G" THEN number(val[2], val[3] * 1000, <<>>)
  ELSE IF unit = "K" THEN number(val[2], (val[3] + 500) \div 1000, <<>>)
  ELSE val

cfgIfaceBw(st, idx, blk) ==
  IF firstBwLine(blk, 1) = 0 THEN st
  ELSE setItf(st, idx, "bandwidth_mbps",
              bwValue(toInt(digitRun(SubSeq(trimStart(blk[firstBwLine(blk, 1)]), 3,
                                            Len(trimStart(blk[firstBwLine(blk, 1)]))))),
                      bwUnit(trimStart(blk[firstBwLine(blk, 1)]))))

cfgIface(st, blk) ==
  LET firstLine == blk[1]
      name == IF IfaceStart(firstLine) THEN trim(SubSeq(firstLine, 3, Len(firstLine)))
              ELSE trim(firstLine)
      e == ensureInterface(st, name)
      d == findLineStart(blk, 1, {<<"description", "\\s", "\\S">>})
      a == findLineStart(blk, 1, {<<"ip", "\\s", "address", "\\s", "\\n", "\\s", "\\n">>})
      s1 == IF d = 0 THEN e.st
            ELSE setItf(e.st, e.idx, "description",
                        trim(SubSeq(trimStart(blk[d]), 3, Len(trimStart(blk[d])))))
      s2 == IF a = 0 THEN s1
            ELSE setItf(setItf(s1, e.idx, "ip", <<trimStart(blk[a])[5]>>),
                        e.idx, "mask", <<trimStart(blk[a])[7]>>)
  IN  IF name = <<>> THEN st
      ELSE IF e.idx = 0 THEN e.st
      ELSE cfgIfaceBw(cfgIfaceVrf(s2, e.idx, blk), e.idx, blk)

RECURSIVE cfgIfaces(_, _)
cfgIfaces(st, blks) ==
  IF blks = <<>> THEN st
  ELSE cfgIfaces(cfgIface(st, Head(blks)), Tail(blks))

\* the sections of the extractor that follow the interfaces, on txt
cfgProtocols(txt, st) ==
  eachStanza(
    eachStanza(
      eachStanza(st, stanzas(txt, 1, {<<"isis">>}, {"#", "!"}), "isis"),
      stanzas(txt, 1, {<<"bgp">>}, {"#", "!"}), "bgp"),
    stanzas(txt, 1, {<<"alarm">>, <<"alarm-name">>}, {"#", "!"}), "alarm")

\* the sections of the extractor up to the interfaces, on txt
cfgIdentity(txt, st) ==
  cfgIfaces(
    eachStanza(cfgSsh(txt, 1, cfgNtp(txt, cfgSysname(txt, st))),
               stanzas(txt, 1, {<<"vpn-instance", "\\s", "\\S">>}, {"#"}), "vrf"),
    ifaceBlocks(txt))

cfgSections(txt, st) == cfgProtocols(txt, cfgIdentity(txt, st))

p_display_current_configuration(b, st) == cfgSections(cleanTailPrompt(b), st)

\* ------------------------------------------------- display bfd session
\* t.split(/\s{2,}/).filter(Boolean)
RECURSIVE nonEmpty(_)
nonEmpty(ps) ==
  IF ps = <<>> THEN <<>>
  ELSE (IF Head(ps) = <<>> THEN <<>> ELSE <<Head(ps)>>) \o nonEmpty(Tail(ps))

\* /^\d/ on the trimmed line
startsWithDigit(t) == t # <<>> /\ Head(t) \in Digits \cup DigitChars \cup IPs

bfdSession(p) ==
  [ local |-> p[1], remote |-> p[2], peer_ip |-> p[3], state |-> p[4],
    type |-> IF Len(p) >= 5 THEN p[5] ELSE NULL,
    interface |-> IF Len(p) >= 6 THEN p[6] ELSE NULL ]

bfdPush(st, p) ==
  IF Len(p) >= 4 THEN [st EXCEPT !.m.bfd_sessions = Append(@, bfdSession(p))] ELSE st

bfdRow(st, t) ==
  IF startsWithDigit(t) THEN bfdPush(st, nonEmpty(splitWide(<<>>, t))) ELSE st

RECURSIVE p_display_bfd_session_all(_, _)
p_display_bfd_session_all(b, st) ==
  IF b = <<>> THEN st
  ELSE p_display_bfd_session_all(Tail(b), bfdRow(st, trim(Head(b))))

\* ------------------------------------ display eth-trunk, display lacp peer
\* An entry of protocols.trunks.eth_trunks: a key not set is UNDEF.
newTrunk(type, id) ==
  [ type |-> type, id |-> id, work_mode |-> UNDEF, state |-> UNDEF, members |-> UNDEF,
    master_state |-> UNDEF, mode |-> UNDEF, actor |-> UNDEF, partner |-> UNDEF ]

\* eth_trunks.find(t => t.id === id): its place, 0 for undefined
trunkIndex(trunks, id) ==
  IF \E i \in 1..Len(trunks) : trunks[i].id = id
  THEN CHOOSE i \in 1..Len(trunks) :
         trunks[i].id = id /\ \A j \in 1..(i - 1) : trunks[j].id # id
  ELSE 0

\* the second (\S+) of a line: what follows the first run and whitespace
secondRun(l) == nonWsRun(trimStart(SubSeq(l, Len(nonWsRun(l)) + 1, Len(l))))

\* /^Eth-Trunk(\d+)\s+(\S+)\s+(\S+)/i
TrunkHead == <<"eth-trunk", "\\d", "\\s", "\\S">>
headMatch(t) == matchEnd(t, 1, TrunkHead) > 0 /\ secondRun(SubSeq(t, 4, Len(t))) # <<>>

trunkPush(st, t) ==
  [st EXCEPT !.m.eth_trunks =
     Append(@, [newTrunk(<<"Eth-Trunk">>, <<t[2]>>) EXCEPT
                  !.work_mode = nonWsRun(SubSeq(t, 4, Len(t))),
                  !.state = secondRun(SubSeq(t, 4, Len(t))),
                  !.members = <<>>])]

\* /Members?\s*in\s+trunk\s*(\d+)\s*:\s*(.+)$/im, with something after ":"
MembersIn == <<"members", "\\s*", "in", "\\s", "trunk", "\\s*", "\\d", "\\s*", ":", "\\s*", "\\S">>
memMatch(t) == hitLine(<<t>>, MembersIn) > 0
\* memMatch[1] and memMatch[2]: the number after "trunk", the text after ":"
memTrunk(t) == <<Head(SelectSeq(afterTok(t, "trunk"), LAMBDA c : c \in Digits))>>
memList(t) == afterTok(afterTok(t, "trunk"), ":")

\* memMatch[2].match(/(?:GE|Eth|100GE|25GE|40GE|10GE)\S+/g), then uniq
MemberToks == {"GE1", "GE2"}
RECURSIVE memberIds(_, _)
memberIds(l, seen) ==
  IF l = <<>> THEN <<>>
  ELSE IF Head(l) \in MemberToks /\ Head(l) \notin seen
       THEN <<<<Head(l)>>>> \o memberIds(Tail(l), seen \cup {Head(l)})
  ELSE memberIds(Tail(l), seen)

trunkMembers(st, t, idx) ==
  IF idx = 0 THEN st
  ELSE [st EXCEPT !.m.eth_trunks[idx].members = memberIds(memList(t), {})]

\* /Master\s*State\s*:\s*(\S+)/i
MasterState == <<"master", "\\s*", "state", "\\s*", ":", "\\s*", "\\S">>
trunkMaster(st, t, current) ==
  IF current > 0 /\ hitLine(<<t>>, MasterState) > 0
  THEN [st EXCEPT !.m.eth_trunks[current].master_state =
          nonWsRun(SubSeq(t, hitEnd(t, MasterState) - 1, Len(t)))]
  ELSE st

\* a line that is not a head line
trunkLine(st, t, current) ==
  trunkMaster(IF memMatch(t) THEN trunkMembers(st, t, trunkIndex(st.m.eth_trunks, memTrunk(t))) ELSE st,
              t, current)

\* the lines of the chunk in turn; current is the place of the entry of the
\* last head line, 0 before the first
RECURSIVE ethTrunkLines(_, _, _)
ethTrunkLines(b, st, current) ==
  IF b = <<>> THEN st
  ELSE IF headMatch(trim(Head(b)))
       THEN ethTrunkLines(Tail(b), trunkPush(st, trim(Head(b))), Len(st.m.eth_trunks) + 1)
  ELSE ethTrunkLines(Tail(b), trunkLine(st, trim(Head(b)), current), current)

p_display_eth_trunk(b, st) == ethTrunkLines(b, st, 0)

\* /^Eth-Trunk(\d+)\s+(\S+)\s+Actor:\s*(\S+).*?Partner:\s*(\S+)/i on the line
\* as written: Actor stands right after the mode
LacpHead == <<"eth-trunk", "\\d", "\\s", "\\S", "\\s", "actor", ":", "\\s*", "\\S">>
Partner == <<"partner", ":", "\\s*", "\\S">>
lacpMatch(l) ==
  /\ matchEnd(l, 1, LacpHead) > 0
  /\ hitLine(<<SubSeq(l, matchEnd(l, 1, LacpHead), Len(l))>>, Partner) > 0

lacpActor(l) == nonWsRun(SubSeq(l, matchEnd(l, 1, LacpHead) - 1, Len(l)))
lacpRest(l) == SubSeq(l, matchEnd(l, 1, LacpHead), Len(l))
lacpPartner(l) == nonWsRun(SubSeq(lacpRest(l), hitEnd(lacpRest(l), Partner) - 1, Len(lacpRest(l))))

lacpSet(st, l, idx) ==
  IF idx > 0
  THEN [st EXCEPT !.m.eth_trunks[idx].type = <<"LACP">>,
                  !.m.eth_trunks[idx].actor = lacpActor(l),
                  !.m.eth_trunks[idx].partner = lacpPartner(l)]
  ELSE [st EXCEPT !.m.eth_trunks =
          Append(@, [newTrunk(<<"LACP">>, <<l[2]>>) EXCEPT
                       !.mode = <<l[4]>>,
                       !.actor = lacpActor(l),
                       !.partner = lacpPartner(l)])]

lacpLine(st, l) ==
  IF lacpMatch(l) THEN lacpSet(st, l, trunkIndex(st.m.eth_trunks, <<l[2]>>)) ELSE st

RECURSIVE p_display_lacp_peer(_, _)
p_display_lacp_peer(b, st) ==
  IF b = <<>> THEN st
  ELSE p_display_lacp_peer(Tail(b), lacpLine(st, Head(b)))

\* --------------------------------- display ip routing-table statistics
\* a (\d+) at place k of line l
digitsAt(l, k) == digitRun(SubSeq(l, k, Len(l)))

\* vrfMatch: what follows "VPN-Instance :" on its line, trimmed; null without
statsVrf(b) ==
  IF hitLine(b, VpnInstance) = 0 THEN NULL
  ELSE IF trim(vpnRest(b[hitLine(b, VpnInstance)])) = <<>> THEN NULL
  ELSE trim(vpnRest(b[hitLine(b, VpnInstance)]))

\* totalMatch: /Total\s+(\d+)/i
TotalPat == <<"total", "\\s", "\\d">>
statsTotal(b) ==
  IF hitLine(b, TotalPat) = 0 THEN NULL
  ELSE toInt(digitsAt(b[hitLine(b, TotalPat)], hitEnd(b[hitLine(b, TotalPat)], TotalPat) - 1))

\* sumMatch: /Summary\s+Prefixes\s*[: ]\s*(\d+)/i, with ":" or with whitespace
SumColon == <<"summary", "\\s", "prefixes", "\\s*", ":", "\\s*", "\\d">>
SumSpace == <<"summary", "\\s", "prefixes", "\\s", "\\d">>
sumPat(b) == IF hitLine(b, SumColon) > 0 THEN SumColon ELSE SumSpace
hasSum(b) == hitLine(b, SumColon) > 0 \/ hitLine(b, SumSpace) > 0
statsSum(b, P) == toInt(digitsAt(b[hitLine(b, P)], hitEnd(b[hitLine(b, P)], P) - 1))

\* b.split('\nProto')[1]: from the first line after line 1 that opens with
\* "Proto", what follows that word and the lines up to the next such line;
\* <<>> stands for undefined and for ""
protoAt(b, i) == i > 1 /\ b[i] # <<>> /\ b[i][1] = "Proto"
RECURSIVE untilProto(_)
untilProto(ls) ==
  IF ls = <<>> \/ (Head(ls) # <<>> /\ Head(ls)[1] = "Proto") THEN <<>>
  ELSE <<Head(ls)>> \o untilProto(Tail(ls))
firstProto(b) == CHOOSE i \in 1..Len(b) : protoAt(b, i) /\ \A j \in 1..(i - 1) : ~protoAt(b, j)
protoLines(b) ==
  IF ~\E i \in 1..Len(b) : protoAt(b, i) THEN <<>>
  ELSE IF Tail(b[firstProto(b)]) = <<>> /\ untilProto(SubSeq(b, firstProto(b) + 1, Len(b))) = <<>>
       THEN <<>>
  ELSE <<Tail(b[firstProto(b)])>> \o untilProto(SubSeq(b, firstProto(b) + 1, Len(b)))

\* the five (\d+) of a row, each after whitespace; <<>> when one is missing
RECURSIVE rowNums(_, _)
rowNums(l, n) ==
  IF n = 0 THEN <<>>
  ELSE IF l = <<>> \/ Head(l) \notin Ws \/ digitRun(trimStart(l)) = <<>> THEN <<<<>>>>
  ELSE <<digitRun(trimStart(l))>>
       \o rowNums(SubSeq(trimStart(l), Len(digitRun(trimStart(l))) + 1, Len(trimStart(l))), n - 1)

\* /^\s*([A-Z-]+)\s+(\d+)\s+(\d+)\s+(\d+)\s+(\d+)\s+(\d+)/i
protoWord(c) == IsWord(c) /\ c \notin Digits \cup DigitChars \cup IPs
rowMatch(t) ==
  /\ t # <<>> /\ protoWord(t[1])
  /\ Len(rowNums(Tail(t), 5)) = 5
  /\ \A i \in 1..5 : rowNums(Tail(t), 5)[i] # <<>>

prefixRow(t, ns) ==
  [ proto |-> <<t[1]>>, total |-> toInt(ns[1]), active |-> toInt(ns[2]),
    added |-> toInt(ns[3]), deleted |-> toInt(ns[4]), freed |-> toInt(ns[5]) ]

RECURSIVE prefixRows(_)
prefixRows(ls) ==
  IF ls = <<>> THEN <<>>
  ELSE (IF rowMatch(trimStart(Head(ls)))
        THEN <<prefixRow(trimStart(Head(ls)), rowNums(Tail(trimStart(Head(ls))), 5))>>
        ELSE <<>>) \o prefixRows(Tail(ls))

\* summary.summary_prefixes: the array of rows (kind "array"), or the number
\* of the old format (kind "number", or "null" in the v3 analyzer)
prefixesOf(b) ==
  IF protoLines(b) # <<>> THEN [kind |-> "array", rows |-> prefixRows(protoLines(b)), count |-> NULL]
  ELSE IF hasSum(b) THEN [kind |-> "number", rows |-> <<>>, count |-> statsSum(b, sumPat(b))]
  ELSE [kind |-> "array", rows |-> <<>>, count |-> NULL]

\* summary.summary_prefixes.length > 0: a number has no length
lengthPositive(sp) == sp.kind = "array" /\ Len(sp.rows) > 0

statsPush(st, summary) ==
  IF summary.total_routes # NULL \/ lengthPositive(summary.summary_prefixes)
  THEN [st EXCEPT !.m.table_summary = Append(@, summary)]
  ELSE st

p_display_ip_routing_table_statistics(b, st) ==
  statsPush(st, [vrf |-> statsVrf(b), total_routes |-> statsTotal(b),
                 summary_prefixes |-> prefixesOf(b)])

\* the same extractor in the v3 analyzer: total or sum is enough
p_display_ip_routing_table_statistics_v3(b, st) ==
  IF statsTotal(b) # NULL \/ hasSum(b)
  THEN [st EXCEPT !.m.table_summary =
          Append(@, [vrf |-> statsVrf(b), total_routes |-> statsTotal(b),
                     summary_prefixes |->
                       [kind |-> IF hasSum(b) THEN "number" ELSE "null",
                        rows |-> <<>>,
                        count |-> IF hasSum(b) THEN statsSum(b, sumPat(b)) ELSE NULL]])]
  ELSE st

\* --------------------------------------------- the VRF display extractors
\* nameMatch[1].trim(): what follows "vpn-instance" and whitespace on the
\* first line holding them, <<>> when no line does
ridVrfName(b) ==
  IF hitLine(b, <<"vpn-instance", "\\s">>) = 0 THEN <<>>
  ELSE trim(SubSeq(b[hitLine(b, <<"vpn-instance", "\\s">>)],
                   hitEnd(b[hitLine(b, <<"vpn-instance", "\\s">>)], <<"vpn-instance", "\\s">>),
                   Len(b[hitLine(b, <<"vpn-instance", "\\s">>)])))

RouterID == <<"routerid", "\\s*", ":", "\\s*", "\\n">>

\* ridMatch[1]: the address after "RouterID :", <<>> when no line holds it
ridVrfRid(b) ==
  IF hitLine(b, RouterID) = 0 THEN <<>>
  ELSE <<b[hitLine(b, RouterID)][hitEnd(b[hitLine(b, RouterID)], RouterID) - 1]>>

ridVrfSet(st, name, rid, idx) ==
  IF idx > 0 THEN [st EXCEPT !.m.router_ids = setKey(@, name, rid),
                             !.m.vrfs[idx].router_id = rid]
  ELSE [st EXCEPT !.m.router_ids = setKey(@, name, rid),
                  !.m.vrfs = Append(@, [name |-> name, af |-> NULL, router_id |-> rid])]

p_display_router_id_vrf(b, st) ==
  IF ridVrfName(b) = <<>> \/ ridVrfRid(b) = <<>> THEN st
  ELSE ridVrfSet(st, ridVrfName(b), ridVrfRid(b), vrfIndex(st.m.vrfs, ridVrfName(b)))

\* [...new Set([...(merged.af || []), ...af])]
afUnion(old, af) ==
  IF old = NULL THEN <<af>>
  ELSE IF \E i \in 1..Len(old) : old[i] = af THEN old
  ELSE Append(old, af)

\* a row of the table, /^([A-Za-z0-9\-_]+)\s+(\S+)/ on the trimmed line
vpnRowMatch(t) ==
  /\ Len(t) >= 3
  /\ IsWord(t[1]) /\ t[1] \notin IPs /\ t[1] \notin {"*", "Name", "-----"}
  /\ t[2] \in Ws
  /\ t[3] \notin Ws

vpnRowSet(st, name, af, idx) ==
  IF idx > 0 THEN [st EXCEPT !.m.vrfs[idx].af = afUnion(@, af)]
  ELSE [st EXCEPT !.m.vrfs = Append(@, [name |-> name, af |-> <<af>>, router_id |-> NULL])]

vpnRow(st, t) ==
  IF ~vpnRowMatch(t) THEN st
  ELSE vpnRowSet(st, <<t[1]>>, nonWsRun(SubSeq(t, 3, Len(t))), vrfIndex(st.m.vrfs, <<t[1]>>))

RECURSIVE p_display_vpn_instance(_, _)
p_display_vpn_instance(b, st) ==
  IF b = <<>> THEN st
  ELSE p_display_vpn_instance(Tail(b), vpnRow(st, trim(Head(b))))

\* ------------------------------------------------------------ parseFile
NoErr == UNDEF

\* An extractor raises on a chunk that holds a fault line: what it read before
\* that line has been applied.  (No text makes the extractors of the source
\* raise; the fault line stands for any failure inside fn.)
FaultLine == <<"BOOM">>
hasFault(b) == \E i \in 1..Len(b) : b[i] = FaultLine

RECURSIVE untilFault(_)
untilFault(b) ==
  IF b = <<>> \/ Head(b) = FaultLine THEN <<>>
  ELSE <<Head(b)>> \o untilFault(Tail(b))

\* fn(b, model): the state it leaves and the error it raises, NoErr for none.
\* The extractors not listed write fields that the model does not hold.
call(fn, b, st) ==
  [ st |-> CASE fn = "p_display_interface_brief" ->
                  p_display_interface_brief(untilFault(b), st)
             [] fn = "p_display_interface_ethernet_brief" ->
                  p_display_interface_ethernet_brief(untilFault(b), st)
             [] fn = "p_display_ip_interface" ->
                  p_display_ip_interface(untilFault(b), st)
             [] fn = "p_display_current_configuration" ->
                  p_display_current_configuration(untilFault(b), st)
             [] fn = "p_display_bfd_session_all" ->
                  p_display_bfd_session_all(untilFault(b), st)
             [] fn = "p_display_eth_trunk" ->
                  p_display_eth_trunk(untilFault(b), st)
             [] fn = "p_display_lacp_peer" ->
                  p_display_lacp_peer(untilFault(b), st)
             [] fn = "p_display_ip_routing_table_statistics" ->
                  p_display_ip_routing_table_statistics(untilFault(b), st)
             [] fn = "p_display_router_id_vrf" ->
                  p_display_router_id_vrf(untilFault(b), st)
             [] fn = "p_display_vpn_instance" ->
                  p_display_vpn_instance(untilFault(b), st)
             [] OTHER -> st,
    err |-> IF hasFault(b) THEN <<"fault">> ELSE NoErr ]

\* raw.match(/^<([^>]+)>/m)
RECURSIVE insideAngle(_)
insideAngle(l) ==
  IF l = <<>> \/ Head(l) = ">" THEN <<>> ELSE <<Head(l)>> \o insideAngle(Tail(l))

RECURSIVE hostnameOf(_)
hostnameOf(raw) ==
  IF raw = <<>> THEN NULL
  ELSE IF PromptStart(Head(raw)) THEN insideAngle(Tail(Head(raw)))
  ELSE hostnameOf(Tail(raw))

\* ensureInterface._map = new Map()
\* Variant: the map of the parse before is kept.
newMapStale(old) == old

newMap(old) == <<>>

\* Variant: parseFile without the new Map().
parseStartKeepMap(raw, oldMap) ==
  [m |-> [newModel EXCEPT !.hostname = hostnameOf(raw)], map |-> oldMap]

parseStart(raw, oldMap) ==
  [m |-> [newModel EXCEPT !.hostname = hostnameOf(raw)], map |-> newMap(oldMap)]

\* PASS 1
\* Variant: only RAW_CONFIG_REGEX is tested.
hasConfigRawOnly(raw) == RAW_CONFIG_REGEX(raw)

hasConfig(raw) == RAW_CONFIG_REGEX(raw) \/ hasDisCur(raw)

RECURSIVE firstDisCur(_)
firstDisCur(blocks) ==
  IF blocks = <<>> THEN 0
  ELSE IF isDisCur(detectCommand(Head(blocks))) THEN 1
  ELSE LET n == firstDisCur(Tail(blocks)) IN IF n = 0 THEN 0 ELSE n + 1

configBlock(raw) ==
  LET blocks == splitBlocks(raw)
      n == firstDisCur(blocks)
  IN  IF RAW_CONFIG_REGEX(raw) \/ n = 0 THEN raw
      ELSE stripCommandFromBlock(blocks[n])

ConfigErrorKey == <<"config", "_", "parser", "_", "error">>
StackTrace == <<<<"stack">>>>

prePassCatch(st, err) ==
  [st EXCEPT !.m.raw_sections =
     setKey(@, ConfigErrorKey, <<[error |-> err, raw |-> StackTrace]>>)]

prePassTry(r) == IF r.err = NoErr THEN r.st ELSE prePassCatch(r.st, r.err)

prePass(raw, st) ==
  IF ~hasConfig(raw) THEN st
  ELSE prePassTry(call("p_display_current_configuration", configBlock(raw), st))

\* (model.raw_sections[key] ||= []).push(entry).  raw_sections is a plain {}:
\* the key "constructor" reads Object.prototype.constructor, which is truthy
\* and has no push, so the call raises a TypeError.
ProtoKeys == {<<"constructor">>}

hasKey(obj, k) == \E i \in 1..Len(obj) : obj[i][1] = k
getKey(obj, k) == (CHOOSE i \in 1..Len(obj) : obj[i][1] = k)

pushRaw(st, key, entry) ==
  IF hasKey(st.m.raw_sections, key)
  THEN [st |-> [st EXCEPT !.m.raw_sections[getKey(st.m.raw_sections, key)][2] = Append(@, entry)],
        err |-> NoErr]
  ELSE IF key \in ProtoKeys THEN [st |-> st, err |-> <<"TypeError">>]
  ELSE [st |-> [st EXCEPT !.m.raw_sections = Append(@, <<key, <<entry>>>>)], err |-> NoErr]

\* try { fn(cleanBlock, model) } catch (e) { ... push({ error, raw }) }, on
\* the outcome r of the call
\* Variant: no catch.
caughtNot(r, cmd, cleanBlock) == r

\* Variant: the catch files the entry under the key of PASS 1.
caughtWrongKey(r, cmd, cleanBlock) ==
  IF r.err = NoErr THEN r
  ELSE pushRaw(r.st, ConfigErrorKey,
               [error |-> r.err, raw |-> cleanTailPrompt(cleanBlock)])

caught(r, cmd, cleanBlock) ==
  IF r.err = NoErr THEN r
  ELSE pushRaw(r.st, normalizeKey(cmd),
               [error |-> r.err, raw |-> cleanTailPrompt(cleanBlock)])

dispatch(st, fn, cmd, cleanBlock) == caught(call(fn, cleanBlock, st), cmd, cleanBlock)

\* if (!handled && cmd !== 'unknown') ... push({ raw })
\* Variant: handled is not consulted.
unhandledAlso(st, handled, cmd, cleanBlock) ==
  IF cmd # <<"unknown">>
  THEN pushRaw(st, normalizeKey(cmd), [error |-> UNDEF, raw |-> cleanTailPrompt(cleanBlock)])
  ELSE [st |-> st, err |-> NoErr]

unhandled(st, handled, cmd, cleanBlock) ==
  IF ~handled /\ cmd # <<"unknown">>
  THEN pushRaw(st, normalizeKey(cmd), [error |-> UNDEF, raw |-> cleanTailPrompt(cleanBlock)])
  ELSE [st |-> st, err |-> NoErr]

\* the extractor of the first entry of ROUTES that matches cmd, "" for none
routeFn(cmd) == IF firstRoute(cmd) = 0 THEN "" ELSE ROUTES[firstRoute(cmd)].fn

\* the end of a turn of the loop, d being the state and the error so far
endOfTurn(d, handled, fn, cmd, cleanBlock) ==
  IF d.err # NoErr THEN [st |-> d.st, err |-> d.err, fn |-> fn]
  ELSE [st |-> unhandled(d.st, handled, cmd, cleanBlock).st,
        err |-> unhandled(d.st, handled, cmd, cleanBlock).err,
        fn |-> fn]

\* Variant: the block pass does not pass over the configuration chunks.
turnInOrder(st, cmd, fn, cleanBlock, hasCfg) ==
  IF fn # ""
  THEN endOfTurn(dispatch(st, fn, cmd, cleanBlock), TRUE, fn, cmd, cleanBlock)
  ELSE endOfTurn([st |-> st, err |-> NoErr], FALSE, fn, cmd, cleanBlock)

turn(st, cmd, fn, cleanBlock, hasCfg) ==
  IF hasCfg /\ isDisCur(cmd) THEN [st |-> st, err |-> NoErr, fn |-> ""]
  ELSE IF fn # ""
       THEN endOfTurn(dispatch(st, fn, cmd, cleanBlock), TRUE, fn, cmd, cleanBlock)
  ELSE endOfTurn([st |-> st, err |-> NoErr], FALSE, fn, cmd, cleanBlock)

\* One turn of the loop of PASS 2 on block: the state, the error that leaves
\* parseFile (NoErr for none) and the extractor called ("" for none).
blockStep(st, block, hasCfg) ==
  turn(st, detectCommand(block), routeFn(detectCommand(block)),
       stripCommandFromBlock(block), hasCfg)

RECURSIVE blockPass(_, _, _)
blockPass(st, blocks, hasCfg) ==
  IF blocks = <<>> THEN [st |-> st, err |-> NoErr]
  ELSE LET r == blockStep(st, Head(blocks), hasCfg)
       IN  IF r.err # NoErr THEN [st |-> r.st, err |-> r.err]
           ELSE blockPass(r.st, Tail(blocks), hasCfg)

\* CLEANUP
\* Variant: no uniqBy.
cleanupKeepAll(m) == m

cleanup(m) ==
  [m EXCEPT !.ssh_users = uniqBy(@, "name"),
            !.ntp_servers = uniqBy(@, "ip"),
            !.interfaces = uniqBy(@, "name"),
            !.vrfs = uniqBy(@, "name"),
            !.alarms = uniqBy(@, "description"),
            !.config_peers = uniqBy(@, "peer_ip"),
            !.isis_processes = uniqBy(@, "id")]

\* parseFile on the text raw, entered with the registry oldMap: the model it
\* returns, or the error that leaves it.
parseFile(raw, oldMap) ==
  LET r == blockPass(prePass(raw, parseStart(raw, oldMap)), splitBlocks(raw), hasConfig(raw))
  IN  [m |-> cleanup(r.st.m), err |-> r.err]

\* JSON.stringify(model, null, 2): an interface record is written as its set
\* fields in the order they were set; the other objects have fixed keys.
RECURSIVE fieldsOf(_, _)
fieldsOf(rec, order) ==
  IF order = <<>> THEN <<>>
  ELSE <<<<Head(order), rec[Head(order)]>>>> \o fieldsOf(rec, Tail(order))

RECURSIVE stringifyInterfaces(_)
stringifyInterfaces(itfs) ==
  IF itfs = <<>> THEN <<>>
  ELSE <<fieldsOf(Head(itfs), Head(itfs).order)>> \o stringifyInterfaces(Tail(itfs))

stringify(m) == [m EXCEPT !.interfaces = stringifyInterfaces(@)]

\* ------------------------------------------------------------ inputs
\* Chunks of collected output: command lines, table rows and configuration
\* stanzas of the kinds the extractors read.
cVer == <<"display", " ", "version">>
cBrief == <<"display", " ", "interface", " ", "brief">>
cCur == <<"dis", " ", "cur">>
cFoo == <<"display", " ", "foo">>
row(n, s) == <<n, "  ", s, "  ", s>>
desc(d) == <<" ", "description", " ", d>>
itf(n) == <<"interface", " ", n>>
cEth == <<"display", " ", "interface", " ", "ethernet", " ", "brief">>
cIp == <<"dis", " ", "ip", " ", "int">>
ethLine(n, unit) == <<n, "  ", "up", "  ", "full", " ", "4", "0", unit>>
ipOf(n) == <<"Interface", " ", ":", " ", n>>
addr(a, m) == <<" ", "IP", " ", "Address", " ", ":", " ", a, " ", m>>
vpn(v) == <<" ", "VPN-Instance", " ", ":", " ", v>>

ChunkPool ==
  { <<cVer, <<"Version", " ", "V8">>, <<>>>>,
    <<cVer, FaultLine>>,
    <<cBrief, <<"Interface", "  ", "PHY", "  ", "Protocol">>, row("GE1", "up"), <<"<", "R2", ">">>>>,
    <<cBrief, row("ge1", "down"), FaultLine, row("GE2", "up")>>,
    <<<<"#">>, <<"sysname", " ", "R1">>, itf("GE1"), desc("WAN"), <<"#">>>>,
    <<cCur, itf("ge1"), desc("LAN"), itf("GE2")>>,
    <<cCur, <<"#">>, itf("GE1"), itf("ge1"), desc("LAN"),
      <<"ntp-service", " ", "unicast-server", " ", "1.1.1.1">>,
      <<"ntp-service", " ", "unicast-server", " ", "1.1.1.1">>,
      <<"isis", " ", "1">>, <<"#">>, <<"isis", " ", "1">>, <<"#">>>>,
    <<cCur, itf("GE1"), desc("WAN"), FaultLine>>,
    <<cFoo, <<"x">>, <<"<", "R2", ">">>>>,
    <<<<"Constructor">>, <<"x">>>>,
    <<<<"Info", ":", " ", "x">>>>,
    <<<<"x">>, cVer, <<"Version", " ", "V8">>>>,
    <<cEth, ethLine("GE1", "G"), ethLine("ge2", "M"), <<"GE2", "  ", "down">>>>,
    <<cIp, ipOf("GE1"), addr("1.1.1.1", "2.2.2.2"), ipOf("ge1"), vpn("A1"), ipOf("GE2")>>,
    <<<<"Info", ":", " ", "x">>, cVer, <<"Version", " ", "V8">>>>,
    <<<<"display", " ", "router", " ", "id", " ", "vpn-instance">>, <<"x">>>>,
    <<<<"<", "R2", ">", "display", " ", "version">>, <<"Version", " ", "V8">>>> }

RECURSIVE joinWith(_, _)
joinWith(cs, sep) ==
  IF cs = <<>> THEN <<>>
  ELSE IF Len(cs) = 1 THEN cs[1]
  ELSE cs[1] \o sep \o joinWith(Tail(cs), sep)

Separators == { <<<<MARKER>>>>, <<>> }

ChunkSeqs == UNION { [1..n -> ChunkPool] : n \in 1..MaxChunks }

Faults == {"missing", "unreadable"}
file(raw, fault) == [raw |-> raw, fault |-> fault]

\* Directory entries: a path is the directory, the base name and the extension
\* of a file, in the order readdirSync lists them.
path(d, base, ext) == [dir |-> d, base |-> base, ext |-> ext]
PathPool ==
  << path("logs", "r1", "log"), path("logs", "r1", "txt"),
     path("logs", "r2", "TXT"), path("logs/old", "r1", "txt") >>
notes == [path |-> path("logs", "notes", "cfg"), raw |-> <<cVer>>, fault |-> "none"]
dirEntry(pth, f) == [path |-> pth, raw |-> f.raw, fault |-> f.fault]
dirOf(entries) == [kind |-> "dir", entries |-> entries]

\* the captures made of one or two chunks of a pool, and the files that fail
filesOf(pool) ==
  { file(joinWith(cs, sep), "none") :
      cs \in UNION { [1..n -> pool] : n \in 1..MaxChunks }, sep \in Separators }
  \cup { file(<<cVer>>, f) : f \in Faults }

\* Interface fields written by the configuration dump and by display chunks.
cfgAddr(a, m) == <<" ", "ip", " ", "address", " ", a, " ", m>>
\* Captures with VRF sightings of the three kinds.
cRid(v) == <<"display", " ", "router", " ", "id", " ", "vpn-instance", " ", v>>
cVpn == <<"display", " ", "vpn-instance">>
vrfStanza(v) == <<"vpn-instance", " ", v>>
routerId(a) == <<" ", "router-id", " ", a>>
ridLine(a) == <<"RouterID", ":", a>>
VrfPool ==
  { <<cCur, vrfStanza("A1"), routerId("1.1.1.1"), <<"#">>,
      vrfStanza("A1"), <<" ", "ipv4-family">>, <<"#">>>>,
    <<cCur, vrfStanza("A1"), routerId("2.2.2.2"), <<" ", "ipv6-family">>, <<"#">>,
      vrfStanza("A2"), <<"#">>>>,
    <<cRid("A1"), <<"VPN-Instance", " ", "A1">>, ridLine("1.1.1.1")>>,
    <<cRid("A2"), <<"vpn-instance", " ", "A2">>, ridLine("2.2.2.2")>>,
    <<cVpn, <<"Name", "  ", "AF">>, <<"A1", "  ", "ipv4">>, <<"A2", "  ", "ipv6">>,
      <<"A1", "  ", "ipv6">>>>,
    <<cVpn, <<"A1", "  ", "ipv4">>, FaultLine, <<"A2", "  ", "ipv4">>>>,
    <<cFoo, <<"x">>>> }

\* Captures with tables whose columns stand two spaces or one space apart.
cBfd == <<"display", " ", "bfd", " ", "session", " ", "all">>
TablePool ==
  { <<cBrief, row("GE1", "up"), <<"GE2", " ", "up", " ", "down">>>>,
    <<cBrief, <<"GE2", "  ", "up", " ", "up">>>>,
    <<cBfd, <<"4", "  ", "5", "  ", "1.1.1.1", "  ", "up">>,
      <<"5", " ", "4", " ", "2.2.2.2", " ", "up">>>>,
    <<cBfd, <<"4", "  ", "5", "  ", "1.1.1.1", "  ", "up", "  ", "S_IP", "  ", "GE1">>,
      <<"0", "  ", "5", "  ", "up">>>>,
    <<cBfd, <<"0", "  ", "4", "  ", "2.2.2.2", "  ", "down">>, FaultLine,
      <<"4", "  ", "5", "  ", "1.1.1.1", "  ", "up">>>>,
    <<cFoo, <<"x">>>> }

\* Captures with display eth-trunk and display lacp peer chunks.
cEthTrunk == <<"display", " ", "eth-trunk">>
cLacp == <<"display", " ", "lacp", " ", "peer">>
trunkHead(n) == <<"Eth-Trunk", n, " ", "NORMAL", " ", "up">>
lacpOf(n, a, q) == <<"Eth-Trunk", n, " ", "static", " ", "Actor", ":", a, " ", "Partner", ":", q>>
TrunkPool ==
  { <<cEthTrunk, trunkHead("1"),
      <<"Members", " ", "in", " ", "trunk", " ", "1", ":", " ", "GE1", " ", "GE2", " ", "GE1">>,
      <<"Master", " ", "State", ":", " ", "up">>>>,
    <<cEthTrunk, trunkHead("2"), trunkHead("1")>>,
    <<cLacp, lacpOf("1", "4", "5")>>,
    <<cLacp, lacpOf("2", "5", "4"), lacpOf("1", "0", "0")>>,
    <<cEthTrunk, trunkHead("1"), FaultLine, trunkHead("2")>>,
    <<cFoo, <<"x">>>> }

\* Captures with display ip routing-table statistics chunks.
cStats == <<"display", " ", "ip", " ", "routing-table", " ", "statistics">>
protoRow(w, n) == <<w, " ", n, " ", n, " ", "0", " ", "0", " ", "0">>
StatsPool ==
  { <<cStats, <<"Summary", " ", "Prefixes", ":", " ", "4", "5">>>>,
    <<cStats, <<"Total", " ", "4">>, <<"Summary", " ", "Prefixes", " ", "5">>>>,
    <<cStats, <<"VPN-Instance", ":", " ", "A1">>, <<"Proto", " ", "total", " ", "active">>,
      protoRow("DIRECT", "4"), <<"STATIC", " ", "5">>>>,
    <<cStats, <<"Proto", " ", "total">>, protoRow("DIRECT", "5")>>,
    <<cStats, <<"Total", " ", "5">>, FaultLine, <<"Proto">>, protoRow("DIRECT", "5")>>,
    <<cStats, <<"x">>>>,
    <<cFoo, <<"x">>>> }

FieldPool ==
  { <<cCur, itf("GE1"), cfgAddr("1.1.1.1", "2.2.2.2"),
      <<" ", "ip", " ", "binding", " ", "vpn-instance", " ", "A1">>,
      <<" ", "speed", " ", "4", "5", "0", "0", "K">>, itf("GE2"), desc("LAN")>>,
    <<cIp, ipOf("ge1"), addr("2.2.2.2", "1.1.1.1"), vpn("A2"), ipOf("GE2")>>,
    <<cEth, ethLine("GE1", "G")>>,
    <<<<"#">>, itf("ge1"), <<" ", "bandwidth", " ", "5">>, cfgAddr("1.1.1.1", "1.1.1.1")>>,
    <<cIp, ipOf("GE1"), FaultLine, addr("2.2.2.2", "1.1.1.1")>>,
    <<cFoo, <<"x">>>> }

FilePool ==
  { file(joinWith(cs, sep), "none") : cs \in ChunkSeqs, sep \in Separators }
  \cup { file(<<cVer>>, f) : f \in Faults }
  \cup { file(<<<<" ">>, <<>>>>, "none"),
         file(<<<<>>, <<" ", "x">>, <<"y", " ">>, <<" ">>>>, "none") }

BatchPool ==
  { file(<<cBrief, row("GE1", "up")>>, "none"),
    file(<<cCur, itf("ge1"), desc("LAN")>>, "none"),
    file(<<cBrief, row("ge1", "down"), <<MARKER>>, cCur, itf("GE1"), desc("WAN")>>, "none"),
    file(<<cBrief, row("GE2", "up"), FaultLine>>, "none"),
    file(<<<<"Constructor">>>>, "none"),
    file(<<cBrief, row("GE1", "up")>>, "missing"),
    file(<<cCur, itf("ge1"), desc("LAN")>>, "unreadable") }

\* the ways to take n paths of PathPool, in its order
Picks(n) ==
  { q \in [1..n -> 1..Len(PathPool)] : \A i, j \in 1..n : i < j => q[i] < q[j] }

Batches ==
  UNION { { [i \in 1..n |-> dirEntry(PathPool[q[i]], c[i])] : c \in [1..n -> BatchPool], q \in Picks(n) }
          : n \in 1..MaxFiles }

Dirs ==
  { dirOf(b) : b \in Batches }
  \cup { dirOf(<<notes>> \o b) : b \in { c \in Batches : Len(c) = 1 } }
  \cup { dirOf(<<notes>>), dirOf(<<>>),
          [kind |-> "missing", entries |-> <<>>], [kind |-> "file", entries |-> <<>>] }

\* ------------------------------------------------------------ state
VARIABLES
  dir,       \* the directory given to analyzeDirectory: what it is and what it holds
  files,     \* the files found by findLogFilesRecursively, in its order
  disk,      \* the output directory: <<path, JSON text>> of every file written
  num,       \* a value read by toInt and toFloat, and what they returned
  fi,        \* analyzeDirectory: index of the file of this turn of the loop
  pc,        \* where the run is: idle, prepass, blocks, parsed, done
  st,        \* [m |-> model of the parse, map |-> ensureInterface._map]
  blk,       \* parseFile: the blocks of PASS 2
  bi,        \* parseFile: index of the next block of PASS 2
  calls,     \* the extractor calls of this parse, in order
  pre,       \* the model of this parse as CLEANUP found it
  outcome,   \* per file analysed so far: what became of it and the JSON written
  results    \* analyzeDirectory: results

vars == <<num, dir, files, disk, fi, pc, st, blk, bi, calls, pre, outcome, results>>

\* analyzeDirectory: catch (e) { console.error(...) } and the loop goes on
\* Variant: the error ends the loop.
afterFailureAbort(i, n) == n + 1

afterFailure(i, n) == i + 1

\* path.join(OUT_DIR, "parsed_" + path.basename(inFile, path.extname(inFile)) + ".json")
outPathFor(inFile) == <<"parsed_", inFile.base, ".json">>

\* findLogFilesRecursively without the test of the extension
findLogFilesAnyName(entries) == entries

\* findLogFilesRecursively: the entries whose name ends in .txt or .log, read
\* without case, in the order of the listing
findLogFiles(entries) == SelectSeq(entries, LAMBDA e : lowerTok(e.path.ext) \in {"txt", "log"})

\* Variant: the hostname of the prompt is not used.
deviceNameSysnameOnly(m) == IF m.sysname # NULL /\ m.sysname # <<>> THEN m.sysname ELSE NULL

\* model.identity.sysname || model.identity.hostname, then || null
deviceName(m) ==
  IF m.sysname # NULL /\ m.sysname # <<>> THEN m.sysname
  ELSE IF m.hostname # NULL /\ m.hostname # <<>> THEN m.hostname
  ELSE NULL

NotRead == <<"not read">>
noValue == [v |-> UNDEF, int |-> NotRead, float |-> NotRead]

InitRest ==
  /\ files = <<>>
  /\ disk = <<>>
  /\ fi = 1
  /\ pc = "start"
  /\ st = [m |-> newModel, map |-> <<>>]
  /\ blk = <<>>
  /\ bi = 0
  /\ calls = <<>>
  /\ pre = newModel
  /\ outcome = <<>>
  /\ results = <<>>

\* the directory holds one capture, drawn from the files of a pool
InitOn(pool) ==
  /\ num = noValue
  /\ dir \in { dirOf(<<dirEntry(PathPool[1], f)>>) : f \in filesOf(pool) }

Init == num = noValue /\ dir \in { dirOf(<<dirEntry(PathPool[1], f)>>) : f \in FilePool } /\ InitRest

InitBatch == num = noValue /\ dir \in Dirs /\ InitRest

InitFields == InitOn(FieldPool) /\ InitRest
InitVrf == InitOn(VrfPool) /\ InitRest
InitStats == InitOn(StatsPool) /\ InitRest
InitTrunk == InitOn(TrunkPool) /\ InitRest
InitTable == InitOn(TablePool) /\ InitRest

\* a field read from a chunk is converted by toInt or by toFloat
InitNum ==
  /\ num \in { [v |-> x, int |-> NotRead, float |-> NotRead] : x \in Values }
  /\ dir = dirOf(<<>>)
  /\ InitRest

others == <<dir, files, disk, fi, pc, st, blk, bi, calls, pre, outcome, results>>

CallToInt ==
  /\ num.int = NotRead
  /\ num' = [num EXCEPT !.int = toInt(num.v)]
  /\ UNCHANGED others

CallToFloat ==
  /\ num.float = NotRead
  /\ num' = [num EXCEPT !.float = toFloat(num.v)]
  /\ UNCHANGED others

NextNum == CallToInt \/ CallToFloat

SpecNum == InitNum /\ [][NextNum]_vars

\* analyzeDirectory up to its loop: the two errors it raises, or the listing
ListDir ==
  /\ pc = "start"
  /\ IF dir.kind # "dir" THEN pc' = "Not a directory" /\ UNCHANGED files
     ELSE IF findLogFiles(dir.entries) = <<>>
          THEN pc' = "No .txt or .log files found" /\ UNCHANGED files
     ELSE pc' = "idle" /\ files' = findLogFiles(dir.entries)
  /\ UNCHANGED <<num, dir, disk, fi, st, blk, bi, calls, pre, outcome, results>>

failed(why) ==
  /\ outcome' = Append(outcome, [status |-> why, json |-> stringify(newModel)])
  /\ fi' = afterFailure(fi, Len(files))
  /\ pc' = "idle"

\* analyzeFile up to PASS 1 of parseFile, on a file that can be read
StartFile ==
  /\ pc = "idle" /\ fi <= Len(files)
  /\ files[fi].fault = "none"
  /\ st' = parseStart(files[fi].raw, st.map)
  /\ pc' = "prepass"
  /\ blk' = <<>> /\ bi' = 0 /\ calls' = <<>> /\ pre' = newModel
  /\ UNCHANGED <<num, dir, files, disk, fi, outcome, results>>

\* existsSync is false, or readFileSync raises: analyzeDirectory catches
FileFails ==
  /\ pc = "idle" /\ fi <= Len(files)
  /\ files[fi].fault # "none"
  /\ failed(files[fi].fault)
  /\ UNCHANGED <<num, dir, files, disk, st, blk, bi, calls, pre, results>>

preCall(cb) ==
  [pass |-> "pre", i |-> 0, cmd |-> <<>>, fn |-> "p_display_current_configuration",
   text |-> cb, threw |-> hasFault(cb)]

\* PASS 1 and splitBlocks
PrePass ==
  /\ pc = "prepass"
  /\ st' = prePass(files[fi].raw, st)
  /\ calls' = IF hasConfig(files[fi].raw) THEN <<preCall(configBlock(files[fi].raw))>>
              ELSE <<>>
  /\ blk' = splitBlocks(files[fi].raw)
  /\ bi' = 1
  /\ pc' = "blocks"
  /\ UNCHANGED <<num, dir, files, disk, fi, pre, outcome, results>>

\* one turn of the loop of PASS 2
blockCall(fn, block, clean) ==
  [pass |-> "block", i |-> bi, cmd |-> detectCommand(block), fn |-> fn,
   text |-> clean, threw |-> hasFault(clean)]

\* r is what the turn of the loop on blk[bi] gives
BlockEnds(r) ==
  /\ st' = r.st
  /\ calls' = IF r.fn = "" THEN calls
              ELSE Append(calls, blockCall(r.fn, blk[bi], stripCommandFromBlock(blk[bi])))
  /\ IF r.err = NoErr
     THEN /\ bi' = bi + 1
          /\ UNCHANGED <<fi, pc, outcome>>
     ELSE /\ failed(r.err[1])
          /\ UNCHANGED bi

Block ==
  /\ pc = "blocks" /\ bi <= Len(blk)
  /\ BlockEnds(blockStep(st, blk[bi], hasConfig(files[fi].raw)))
  /\ UNCHANGED <<num, dir, files, disk, blk, pre, results>>

\* CLEANUP; parseFile returns the model
Cleanup ==
  /\ pc = "blocks" /\ bi > Len(blk)
  /\ pre' = st.m
  /\ st' = [st EXCEPT !.m = cleanup(@)]
  /\ pc' = "parsed"
  /\ UNCHANGED <<num, dir, files, disk, fi, blk, bi, calls, outcome, results>>

\* analyzeFile writes the JSON and returns; analyzeDirectory pushes the result
FinishFile ==
  /\ pc = "parsed"
  /\ outcome' = Append(outcome, [status |-> "ok", json |-> stringify(st.m)])
  /\ disk' = setKey(disk, outPathFor(files[fi].path), stringify(st.m))
  /\ results' = Append(results, [outputPath |-> outPathFor(files[fi].path),
                                 deviceName |-> deviceName(st.m)])
  /\ fi' = fi + 1
  /\ pc' = "idle"
  /\ UNCHANGED <<num, dir, files, st, blk, bi, calls, pre>>

\* analyzeDirectory returns results
BatchDone ==
  /\ pc = "idle" /\ fi > Len(files)
  /\ pc' = "done"
  /\ UNCHANGED <<num, dir, files, disk, fi, st, blk, bi, calls, pre, outcome, results>>

Next == ListDir \/ StartFile \/ FileFails \/ PrePass \/ Block \/ Cleanup \/ FinishFile \/ BatchDone

Spec == Init /\ [][Next]_vars

SpecBatch == InitBatch /\ [][Next]_vars
SpecFields == InitFields /\ [][Next]_vars
SpecVrf == InitVrf /\ [][Next]_vars
SpecStats == InitStats /\ [][Next]_vars
SpecTrunk == InitTrunk /\ [][Next]_vars
SpecTable == InitTable /\ [][Next]_vars

\* ------------------------------------------------- the v3 analyzer, --dir
\* ensureInterface of the v3 analyzer: no test of the key, and the record
\* returned is model.interfaces[idx], undefined (0) past the end of the list
ensureInterfaceV3(s, name) ==
  IF lower(name) \in DOMAIN s.map
  THEN [st |-> s,
        idx |-> IF s.map[lower(name)] <= Len(s.m.interfaces) THEN s.map[lower(name)] ELSE 0]
  ELSE [st |-> [m |-> [s.m EXCEPT !.interfaces = Append(@, newInterface(name))],
                map |-> [k \in DOMAIN s.map \cup {lower(name)} |->
                           IF k = lower(name) THEN Len(s.m.interfaces) + 1 ELSE s.map[k]]],
        idx |-> Len(s.m.interfaces) + 1]

\* parseFile of the v3 analyzer starts from newModel(); ensureInterface._map
\* is created once, by the first call of the process, and never replaced
parseStartV3(raw, oldMap) ==
  [m |-> [newModel EXCEPT !.hostname = hostnameOf(raw)], map |-> oldMap]

\* The captures of the directory: each is one display interface brief chunk.
V3Files ==
  << [base |-> <<"r1">>, raw |-> <<cBrief, row("GE1", "up"), row("GE2", "down")>>],
     [base |-> <<"r2">>, raw |-> <<cBrief, row("GE2", "up")>>],
     [base |-> <<"r3">>, raw |-> <<cBrief, row("eth1", "up"), row("GE1", "down")>>],
     [base |-> <<"r4">>, raw |-> <<cBrief, row("ge1", "up"), <<"x">>, row("GE2", "up")>>] >>

\* fs.readdirSync(dir): some of the captures, each once, in some order
V3Picks ==
  UNION { { q \in [1..n -> 1..Len(V3Files)] :
              \A i \in 1..n : \A j \in 1..n : q[i] = q[j] => i = j } : n \in 1..MaxFiles }
V3Batches == { [i \in DOMAIN q |-> V3Files[q[i]]] : q \in V3Picks }

InitV3 ==
  /\ num = noValue
  /\ dir = dirOf(<<>>)
  /\ files \in V3Batches
  /\ disk = <<>>
  /\ fi = 1
  /\ pc = "v3 idle"
  /\ st = [m |-> newModel, map |-> <<>>]
  /\ blk = <<>>
  /\ bi = 0
  /\ calls = <<>>
  /\ pre = newModel
  /\ outcome = <<>>
  /\ results = <<>>

\* for (const f of files) parseFile(path.join(dir, f)): the next file
V3ParseFile ==
  /\ pc = "v3 idle" /\ fi <= Len(files)
  /\ st' = parseStartV3(files[fi].raw, st.map)
  /\ blk' = splitBlocks(files[fi].raw)
  /\ bi' = 1
  /\ pc' = "v3 rows"
  /\ UNCHANGED <<num, dir, files, disk, fi, calls, pre, outcome, results>>

\* the call of ensureInterface for the row, as it is recorded
v3Call(name, e, s) ==
  [ file |-> fi, name |-> name, idx |-> e.idx,
    known |-> lower(name) \in DOMAIN s.map,
    got |-> IF e.idx = 0 THEN UNDEF ELSE e.st.m.interfaces[e.idx].name ]

\* itf.status = p[1] on undefined is a TypeError: parseFile's catch stores
\* it and the rest of the chunk is not read
v3RowDone(e, p) ==
  IF e.idx = 0
  THEN pushRaw(e.st, normalizeKey(detectCommand(blk[1])),
               [error |-> <<"TypeError">>, raw |-> cleanTailPrompt(blk[1])]).st
  ELSE setItf(setItf(e.st, e.idx, "status", p[2]), e.idx, "protocol", p[3])

\* one line of p_display_interface_brief(block, model)
V3Row ==
  /\ pc = "v3 rows" /\ bi <= Len(blk[1])
  /\ IF isIfaceRow(trim(blk[1][bi])) /\ Len(columns(trim(blk[1][bi]))) >= 3
     THEN /\ st' = v3RowDone(ensureInterfaceV3(st, columns(trim(blk[1][bi]))[1]),
                             columns(trim(blk[1][bi])))
          /\ calls' = Append(calls, v3Call(columns(trim(blk[1][bi]))[1],
                                           ensureInterfaceV3(st, columns(trim(blk[1][bi]))[1]), st))
          /\ bi' = IF ensureInterfaceV3(st, columns(trim(blk[1][bi]))[1]).idx = 0
                   THEN Len(blk[1]) + 1 ELSE bi + 1
     ELSE /\ bi' = bi + 1
          /\ UNCHANGED <<st, calls>>
  /\ UNCHANGED <<num, dir, files, disk, fi, pc, blk, pre, outcome, results>>

\* fs.writeFileSync(outFile, JSON.stringify(model, null, 2)); return model
V3Write ==
  /\ pc = "v3 rows" /\ bi > Len(blk[1])
  /\ disk' = setKey(disk, outPathFor(files[fi]), stringify(st.m))
  /\ outcome' = Append(outcome, [status |-> "ok", json |-> stringify(st.m)])
  /\ fi' = fi + 1
  /\ pc' = "v3 idle"
  /\ UNCHANGED <<num, dir, files, st, blk, bi, calls, pre, results>>

V3Exit ==
  /\ pc = "v3 idle" /\ fi > Len(files)
  /\ pc' = "v3 exit"
  /\ UNCHANGED <<num, dir, files, disk, fi, st, blk, bi, calls, pre, outcome, results>>

NextV3 == V3ParseFile \/ V3Row \/ V3Write \/ V3Exit

SpecV3 == InitV3 /\ [][NextV3]_vars

\* ------------------------------------------------------------ properties
rs == st.m.raw_sections
entriesAt(key) == IF hasKey(rs, key) THEN rs[getKey(rs, key)][2] ELSE <<>>
errorsIn(es) == SelectSeq(es, LAMBDA e : e.error # UNDEF)
routed(b) == firstRoute(detectCommand(b)) > 0
skipped(b) == hasConfig(files[fi].raw) /\ isDisCur(detectCommand(b))
parsing == pc \in {"blocks", "parsed"}
threwIn(pass) == \E n \in 1..Len(calls) : calls[n].pass = pass /\ calls[n].threw
errorEntry(c) == [error |-> <<"fault">>, raw |-> cleanTailPrompt(c.text)]

\* C1: an exception raised by an extractor, in PASS 1 or in PASS 2, does not
\* leave parseFile.  No file is lost to an extractor's exception (a file ends
\* ok, or with the fault of its read, or with the TypeError of a diagnostics
\* key found on Object.prototype); after a call that raised, the loop is at a
\* later block; and when parseFile returns, every block of PASS 2 that has an
\* extractor and is not skipped was given to it, and CLEANUP has run.
C1_ExtractorErrorsContained ==
  /\ \A k \in 1..Len(outcome) :
       \/ outcome[k].status = "ok"
       \/ outcome[k].status = files[k].fault
       \/ /\ outcome[k].status = "TypeError"
          /\ \E b \in Range(splitBlocks(files[k].raw)) :
               ~routed(b) /\ normalizeKey(detectCommand(b)) \in ProtoKeys
  /\ pc = "blocks" => \A n \in 1..Len(calls) : calls[n].threw => calls[n].i < bi
  /\ pc = "parsed" =>
       /\ \A j \in 1..Len(blk) :
            (routed(blk[j]) /\ ~skipped(blk[j])) =>
               \E n \in 1..Len(calls) : calls[n].pass = "block" /\ calls[n].i = j
       /\ st.m = cleanup(pre)

C1_Witness ==
  /\ pc = "parsed"
  /\ \E n, k \in 1..Len(calls) :
       n < k /\ calls[n].threw /\ calls[k].pass = "block" /\ ~calls[k].threw

\* C2 (as observed): every exception raised by an extractor in PASS 2 adds
\* one entry, holding the message and the text of the block, to the list of
\* raw_sections under normalizeKey of the block's label, in the order of the
\* calls; an exception raised in PASS 1 makes the list under the fixed key
\* config_parser_error one entry holding the message and the stack trace.
RECURSIVE thrownUnder(_, _)
thrownUnder(cs, key) ==
  IF cs = <<>> THEN <<>>
  ELSE (IF Head(cs).pass = "block" /\ Head(cs).threw /\ normalizeKey(Head(cs).cmd) = key
        THEN <<errorEntry(Head(cs))>> ELSE <<>>) \o thrownUnder(Tail(cs), key)

keysSeen ==
  { rs[n][1] : n \in 1..Len(rs) } \cup { normalizeKey(calls[n].cmd) : n \in 1..Len(calls) }

labelOf(c) ==
  IF c.pass = "block" THEN c.cmd
  ELSE LET raw == files[fi].raw
           n == firstDisCur(splitBlocks(raw))
       IN  IF RAW_CONFIG_REGEX(raw) \/ n = 0 THEN detectCommand(raw)
           ELSE detectCommand(splitBlocks(raw)[n])

C3_AsClaimed ==
  pc = "parsed" =>
    \A j \in 1..Len(blk) :
      ~routed(blk[j]) =>
        \E k \in 1..Len(entriesAt(normalizeKey(detectCommand(blk[j])))) :
          entriesAt(normalizeKey(detectCommand(blk[j])))[k] =
            [error |-> UNDEF, raw |-> cleanTailPrompt(stripCommandFromBlock(blk[j]))]

\* C3 (as observed): when parseFile returns, the entries without an error
\* under a key are the texts of the blocks of PASS 2 whose label matches no
\* ROUTES pattern, is not "unknown" and has that normalised form, in order; a
\* block labelled "unknown" leaves no entry.
RECURSIVE unmatchedUnder(_, _)
unmatchedUnder(blocks, key) ==
  IF blocks = <<>> THEN <<>>
  ELSE (IF /\ ~routed(Head(blocks))
           /\ detectCommand(Head(blocks)) # <<"unknown">>
           /\ normalizeKey(detectCommand(Head(blocks))) = key
        THEN <<[error |-> UNDEF,
                raw |-> cleanTailPrompt(stripCommandFromBlock(Head(blocks)))]>>
        ELSE <<>>) \o unmatchedUnder(Tail(blocks), key)

C3_UnmatchedRecordedUnlessUnknown ==
  pc = "parsed" =>
    \A key \in keysSeen \cup { normalizeKey(detectCommand(blk[j])) : j \in 1..Len(blk) } :
      SelectSeq(entriesAt(key), LAMBDA e : e.error = UNDEF) = unmatchedUnder(blk, key)

C3_Witness ==
  /\ pc = "parsed"
  /\ Len(blk) >= 2
  /\ \E j \in 1..Len(blk) : detectCommand(blk[j]) = <<"unknown">>
  /\ \E j \in 1..Len(blk) : ~routed(blk[j]) /\ hasKey(rs, normalizeKey(detectCommand(blk[j])))

\* C4: when every block of the input has a label that matches a ROUTES pattern
\* and no extractor call of PASS 2 raised, the returned raw_sections has no
\* entry under the normalised label of any of the blocks.
C4_NoDiagnosticsForHandled ==
  (/\ pc = "parsed"
   /\ \A j \in 1..Len(blk) : routed(blk[j])
   /\ ~threwIn("block")) =>
    \A j \in 1..Len(blk) : ~hasKey(rs, normalizeKey(detectCommand(blk[j])))

C4_Witness ==
  /\ pc = "parsed"
  /\ Len(blk) >= 2
  /\ \A j \in 1..Len(blk) : routed(blk[j])
  /\ ~threwIn("block")
  /\ \E n \in 1..Len(calls) : calls[n].pass = "block"
  /\ \E j \in 1..Len(blk) : skipped(blk[j])

itfs == st.m.interfaces

\* C5: at every point of a parse and in the returned model, no two records of
\* model.interfaces have names that are equal ignoring case, and every name,
\* in any case, resolves through the registry to its one record.
C5_OneRecordPerName ==
  /\ \A i, j \in 1..Len(itfs) : lower(itfs[i].name) = lower(itfs[j].name) => i = j
  /\ \A i \in 1..Len(itfs) :
       /\ lower(itfs[i].name) \in DOMAIN st.map
       /\ st.map[lower(itfs[i].name)] = i
       /\ ensureInterface(st, lower(itfs[i].name)) = [st |-> st, idx |-> i]

C5_Witness ==
  /\ pc = "parsed"
  /\ Len(itfs) = 1
  /\ itfs[1].name = <<"GE1">>
  /\ itfs[1].status = <<"down">>
  /\ itfs[1].description = <<"LAN">>

\* C6: when an interface name is read both from a row of a chunk given to the
\* brief-table extractor and from a stanza of the text given to the
\* configuration extractor, whichever comes first in the file, the returned
\* model has exactly one record for it, with the status and protocol that the
\* brief-table chunks alone give and the description that the configuration
\* alone gives.
fresh == [m |-> newModel, map |-> <<>>]

RECURSIVE briefAlone(_, _)
briefAlone(blocks, acc) ==
  IF blocks = <<>> THEN acc.m.interfaces
  ELSE LET b == Head(blocks)
           r == firstRoute(detectCommand(b))
       IN  IF r > 0 /\ ~skipped(b) /\ ROUTES[r].fn = "p_display_interface_brief"
           THEN briefAlone(Tail(blocks),
                           call("p_display_interface_brief", stripCommandFromBlock(b), acc).st)
           ELSE briefAlone(Tail(blocks), acc)

configAlone(raw) ==
  IF hasConfig(raw)
  THEN call("p_display_current_configuration", configBlock(raw), fresh).st.m.interfaces
  ELSE <<>>

bothSighted ==
  LET bs == briefAlone(blk, fresh)
      cs == configAlone(files[fi].raw)
  IN  { <<b, c>> \in Range(bs) \X Range(cs) :
          lower(b.name) = lower(c.name) /\ c.description # UNDEF }

C7_FreshRegistryPerFile ==
  /\ pc = "prepass" => st.map = <<>> /\ itfs = <<>>
  /\ parsing => \A key \in DOMAIN st.map :
                  /\ st.map[key] \in 1..Len(itfs)
                  /\ lower(itfs[st.map[key]].name) = key
  /\ pc = "parsed" => st.m = parseFile(files[fi].raw, <<>>).m

C7_Witness ==
  /\ pc = "parsed"
  /\ fi >= 2
  /\ outcome[fi - 1].status = "ok"
  /\ outcome[fi - 1].json.interfaces # <<>>
  /\ itfs # <<>>
  /\ files[fi].raw # files[fi - 1].raw

\* C8: two files of a batch with the same content, whatever their positions,
\* give the same JSON text.
C8_SameContentSameJson ==
  \A i, j \in 1..Len(outcome) :
    (files[i].raw = files[j].raw /\ files[i].fault = files[j].fault /\ outcome[i].status = "ok") =>
       /\ outcome[j].status = "ok"
       /\ outcome[j].json = outcome[i].json

C8_Witness ==
  \E i, j \in 1..Len(outcome) :
    /\ j > i + 1
    /\ files[i].raw = files[j].raw
    /\ outcome[i].status = "ok" /\ outcome[j].status = "ok"
    /\ outcome[i].json.interfaces # <<>>
    /\ outcome[i + 1].status = "ok"

\* C9: in the returned model each of the seven lists has no two entries with
\* the same key, and it is the list CLEANUP found with, for every key, only
\* the first entry of that key kept, unchanged and in the same order.
Keyed ==
  { <<"ssh_users", "name">>, <<"ntp_servers", "ip">>, <<"interfaces", "name">>,
    <<"vrfs", "name">>, <<"alarms", "description">>, <<"config_peers", "peer_ip">>,
    <<"isis_processes", "id">> }

firstOfKey(arr, key) ==
  LET F[i \in 0..Len(arr)] ==
        IF i = 0 THEN <<>>
        ELSE IF \E j \in 1..(i - 1) : arr[j][key] = arr[i][key] THEN F[i - 1]
        ELSE Append(F[i - 1], arr[i])
  IN  F[Len(arr)]

C9_ListsDeduplicated ==
  pc = "parsed" =>
    \A lk \in Keyed :
      LET now == st.m[lk[1]]
      IN  /\ \A i, j \in 1..Len(now) : now[i][lk[2]] = now[j][lk[2]] => i = j
          /\ now = firstOfKey(pre[lk[1]], lk[2])

C9_Witness ==
  /\ pc = "parsed"
  /\ Len(st.m.ntp_servers) < Len(pre.ntp_servers)
  /\ Len(st.m.isis_processes) < Len(pre.isis_processes)
  /\ Len(st.m.interfaces) >= 1

\* C10: analyzeDirectory takes the files in order; a file whose analysis
\* fails is passed over and the files after it are still analysed; at every
\* turn of the loop, and when it returns, results holds one entry for each
\* file so far that succeeded, in the order of the files.
succeeded(f) == f.fault = "none" /\ parseFile(f.raw, <<>>).err = NoErr

RECURSIVE resultsOf(_)
resultsOf(k) ==
  IF k = 0 THEN <<>>
  ELSE IF succeeded(files[k])
       THEN Append(resultsOf(k - 1),
                   [outputPath |-> outPathFor(files[k].path),
                    deviceName |-> deviceName(parseFile(files[k].raw, <<>>).m)])
       ELSE resultsOf(k - 1)

C10_BatchIsolatesFailures ==
  /\ pc = "idle" => fi <= Len(files) + 1 /\ results = resultsOf(fi - 1)
  /\ pc = "done" =>
       /\ Len(outcome) = Len(files)
       /\ results = resultsOf(Len(files))

C10_Witness ==
  /\ pc = "done"
  /\ Len(files) = 3
  /\ files[2].fault = "unreadable"
  /\ succeeded(files[1]) /\ succeeded(files[3])
  /\ Len(results) = 2

\* C11: the output path keeps only the base name of the input, so two inputs
\* told apart by directory or extension alone are written to one path and the
\* second write replaces the first.  What the code guarantees: after the
\* batch, each path of the output directory holds the JSON text of the last
\* successful file of that base name, and every successful file's path is there.
okFiles == { i \in 1..Len(outcome) : outcome[i].status = "ok" }

writersOf(p) == { i \in okFiles : outPathFor(files[i].path) = p }

lastOf(S) == CHOOSE i \in S : \A j \in S : j <= i

C11_LastWriterWins ==
  pc \in {"idle", "done"} =>
    /\ \A i \in okFiles : hasKey(disk, outPathFor(files[i].path))
    /\ \A d \in 1..Len(disk) :
         /\ writersOf(disk[d][1]) # {}
         /\ disk[d][2] = outcome[lastOf(writersOf(disk[d][1]))].json

\* r1.log and r1.txt both analysed, with different results
C11_Witness ==
  /\ pc = "done"
  /\ \E i, j \in okFiles :
       /\ i < j
       /\ files[i].path # files[j].path
       /\ outPathFor(files[i].path) = outPathFor(files[j].path)
       /\ outcome[i].json # outcome[j].json
       /\ disk[getKey(disk, outPathFor(files[i].path))][2] = outcome[j].json

\* C11 as stated: distinct successful inputs have distinct output paths, and
\* there is one document per successful input.
C11_AsClaimed ==
  pc = "done" =>
    /\ \A i, j \in okFiles : i # j => outPathFor(files[i].path) # outPathFor(files[j].path)
    /\ Len(disk) = Cardinality(okFiles)
\* C12: analyzeFile on a path that does not exist raises without parsing and
\* without writing: the failure is noted for that file and the model, the
\* extractor calls, the results and the output directory are as they were.
\* analyzeDirectory on something that is not a directory, or on a directory
\* with no .txt/.log entry, raises and no file has been analysed: nothing is
\* listed, parsed, recorded or written.
noLogFile(d) ==
  \A i \in 1..Len(d.entries) : lowerTok(d.entries[i].path.ext) \notin {"txt", "log"}

raisedByDirectory == pc \in {"Not a directory", "No .txt or .log files found"}

untouched ==
  /\ files = <<>> /\ disk = <<>> /\ outcome = <<>> /\ results = <<>>
  /\ calls = <<>> /\ st.m = newModel /\ fi = 1

missingFileStep ==
  (pc = "idle" /\ fi <= Len(files) /\ files[fi].fault = "missing") =>
     /\ outcome' = Append(outcome, [status |-> "missing", json |-> stringify(newModel)])
     /\ pc' # "prepass"
     /\ UNCHANGED <<st, calls, disk, results>>

C12_MissingPathsRaiseEarly ==
  /\ [](dir.kind # "dir" => pc \in {"start", "Not a directory"})
  /\ []((dir.kind = "dir" /\ noLogFile(dir)) => pc \in {"start", "No .txt or .log files found"})
  /\ [](raisedByDirectory => untouched)
  /\ [][missingFileStep]_vars

\* a batch where one file is written and a later one does not exist
C12_Witness ==
  /\ pc = "done"
  /\ \E i \in 1..Len(outcome) :
       /\ outcome[i].status = "missing"
       /\ \E j \in 1..(i - 1) : outcome[j].status = "ok"
       /\ ~hasKey(disk, outPathFor(files[i].path))

C12_NoLogsReached == pc = "No .txt or .log files found" /\ dir.entries # <<>>
C12_NotADirectoryReached == pc = "Not a directory" /\ dir.kind = "file"
\* C13: for each chunk of the block pass at most one extractor is called, and
\* it is the extractor of the lowest-index ROUTES entry whose pattern matches
\* the chunk's label, even when later entries match the label too.
matching(cmd) == { i \in 1..Len(ROUTES) : matchPat(ROUTES[i].rx, cmd) }

lowest(S) == CHOOSE i \in S : \A j \in S : i <= j

blockCalls(n) == { k \in 1..Len(calls) : calls[k].pass = "block" /\ calls[k].i = n }

C13_FirstMatchWins ==
  parsing =>
    \A n \in 1..Len(blk) :
      /\ Cardinality(blockCalls(n)) <= 1
      /\ \A k \in blockCalls(n) :
           /\ matching(detectCommand(blk[n])) # {}
           /\ calls[k].fn = ROUTES[lowest(matching(detectCommand(blk[n])))].fn
      /\ (n < bi /\ matching(detectCommand(blk[n])) # {} /\ ~skipped(blk[n])) =>
           blockCalls(n) # {}

\* "display router id vpn-instance" matches the second and the third entry
C13_Witness ==
  /\ pc = "parsed"
  /\ \E n \in 1..Len(blk) :
       /\ Cardinality(matching(detectCommand(blk[n]))) >= 2
       /\ \E i, j \in matching(detectCommand(blk[n])) : ROUTES[i].fn # ROUTES[j].fn
       /\ \E k \in blockCalls(n) : calls[k].fn = "p_display_router_id_vrf"
\* C14: splitBlocks returns non-empty, trimmed chunks in the order of the
\* input and drops no content: the words and signs of the chunks, in order,
\* are those of the input without the delimiter, only whitespace being
\* removed; when the input has neither the delimiter
\* nor a heuristic split point and is not blank, the result is the one chunk
\* equal to the trimmed input.
RECURSIVE flatten(_)
flatten(txts) == IF txts = <<>> THEN <<>> ELSE Head(txts) \o flatten(Tail(txts))

content(txt) == SelectSeq(flatten(txt), LAMBDA t : t \notin Ws /\ t # MARKER)

hasMarker(raw) == \E i \in 1..Len(raw) : MARKER \in Range(raw[i])

noSplitPoint(raw) ==
  /\ ~hasMarker(raw)
  /\ \A i \in 2..Len(raw) : ~PromptStart(raw[i]) /\ ~DisStart(raw[i])

split == pc \in {"blocks", "parsed"}

chunksAreTrimmed ==
  \A n \in 1..Len(blk) : blk[n] # <<>> /\ trimText(blk[n]) = blk[n] /\ blk[n] # <<<<>>>>

C14_SplitKeepsContent ==
  split =>
    /\ chunksAreTrimmed
    /\ content(flatten(blk)) = content(files[fi].raw)
    /\ (noSplitPoint(files[fi].raw) /\ trimText(files[fi].raw) # <<>>) =>
          blk = <<trimText(files[fi].raw)>>

\* three chunks cut at heuristic split points, blank line dropped at a border
C14_Witness ==
  /\ split
  /\ ~hasMarker(files[fi].raw)
  /\ Len(blk) = 3
  /\ Len(flatten(blk)) < Len(files[fi].raw)
  /\ content(flatten(blk)) # <<>>

\* C14 as stated: with no delimiter and no split point the result is one
\* chunk equal to the trimmed input, blank input included.
C14_AsClaimed ==
  split =>
    (noSplitPoint(files[fi].raw) => blk = <<trimText(files[fi].raw)>>)

C14_OneChunkReached ==
  /\ split /\ noSplitPoint(files[fi].raw)
  /\ blk = <<trimText(files[fi].raw)>> /\ blk[1] # files[fi].raw
\* C15: detectCommand stops at the first line of the chunk that is not blank,
\* not a bare prompt and not an Info/Warning/Error line: the label is the
\* command text matched on that line, or else that line itself; lines after
\* it are not read, so a command line further down does not give the label.
trivial(t) == t = <<>> \/ BarePrompt(t) \/ SysMessage(t)

firstNonTrivial(b) ==
  IF \E i \in 1..Len(b) : ~trivial(trim(b[i]))
  THEN lowest({ i \in 1..Len(b) : ~trivial(trim(b[i])) })
  ELSE 0

commandLines(b) ==
  { i \in 1..Len(b) : ~trivial(trim(b[i])) /\ cmdMatchLen(trim(b[i])) > 0 }

commandTextOf(l) == SubSeq(trim(l), 1, cmdMatchLen(trim(l)))

C15_LabelFromFirstNonTrivialLine ==
  split =>
    \A n \in 1..Len(blk) :
      LET b == blk[n]
          k == firstNonTrivial(b)
      IN  detectCommand(b) =
            IF k = 0 THEN <<"unknown">>
            ELSE IF k \in commandLines(b) THEN commandTextOf(b[k])
            ELSE trim(b[k])

\* a chunk that opens with the line "x" and has "display version" below it
C15_Witness ==
  /\ split
  /\ bi > Len(blk)
  /\ \E n \in 1..Len(blk) :
       /\ commandLines(blk[n]) # {}
       /\ firstNonTrivial(blk[n]) \notin commandLines(blk[n])
       /\ detectCommand(blk[n]) = <<"x">>
       /\ hasKey(rs, normalizeKey(<<"x">>))

\* C15 as stated: the label is the command text of the first line of the
\* chunk that matches the command pattern whenever there is one, and the
\* first non-trivial line only when no line matches.
C15_AsClaimed ==
  split =>
    \A n \in 1..Len(blk) :
      detectCommand(blk[n]) =
        IF commandLines(blk[n]) # {}
        THEN commandTextOf(blk[n][lowest(commandLines(blk[n]))])
        ELSE IF firstNonTrivial(blk[n]) = 0 THEN <<"unknown">>
        ELSE trim(blk[n][firstNonTrivial(blk[n])])
\* C16: the pre-pass gives the configuration extractor one text: the whole
\* capture when RAW_CONFIG_REGEX matches it, and otherwise the first chunk
\* labelled display current-configuration, its command line stripped.  The
\* block pass skips every chunk with that label, calls no extractor for it
\* and records nothing under its label; a second such chunk is read by no one.
preText == IF calls # <<>> /\ calls[1].pass = "pre" THEN calls[1].text ELSE UNDEF

given(b) == preText = files[fi].raw \/ preText = stripCommandFromBlock(b)

C16_OnlyFirstConfigChunkRead ==
  parsing =>
    /\ hasConfig(files[fi].raw) =>
         preText = IF RAW_CONFIG_REGEX(files[fi].raw) \/ firstDisCur(blk) = 0
                   THEN files[fi].raw
                   ELSE stripCommandFromBlock(blk[firstDisCur(blk)])
    /\ \A n \in 1..Len(blk) :
         skipped(blk[n]) =>
           /\ blockCalls(n) = {}
           /\ ~hasKey(rs, normalizeKey(detectCommand(blk[n])))

\* two chunks "dis cur" with different stanzas and no line that opens with "#"
C16_Witness ==
  /\ pc = "parsed"
  /\ \E n \in 2..Len(blk) :
       /\ skipped(blk[n]) /\ skipped(blk[n - 1])
       /\ ~given(blk[n])
       /\ given(blk[n - 1])
       /\ \E l \in Range(blk[n]) : l = itf("GE2")
       /\ \A i \in 1..Len(itfs) : itfs[i].name # <<"GE2">>

\* C16 as stated: every chunk the block pass skips had its text given to the
\* configuration extractor in the pre-pass.
C16_AsClaimed ==
  parsing => \A n \in 1..Len(blk) : skipped(blk[n]) => given(blk[n])
\* C17: toInt and toFloat return a finite number or null, never NaN; a value
\* with no digit (for example "N/A", "-", "", a missing value) gives null and
\* not 0; "45%" gives the integer 45.
noDigit(v) == v \in {UNDEF, NULL} \/ \A i \in 1..Len(v) : v[i] \notin DigitChars

numberOrNull(r) == r = NULL \/ (r # NaN /\ r[1] = "number")

C17_NumberOrNull ==
  /\ num.int # NotRead =>
       /\ numberOrNull(num.int)
       /\ noDigit(num.v) => num.int = NULL
       /\ num.v = <<"4", "5", "%">> => num.int = number("+", 45, <<>>)
       /\ num.v = <<"N", "/", "A">> => num.int = NULL
  /\ num.float # NotRead =>
       /\ numberOrNull(num.float)
       /\ noDigit(num.v) => num.float = NULL
       /\ num.v = <<"4", "5", "%">> => num.float = number("+", 45, <<>>)

\* "-" is given to both and both return null
C17_Witness ==
  /\ num.v = <<"-">>
  /\ num.int = NULL
  /\ num.float = NULL

C17_PercentReached == num.v = <<"4", "5", "%">> /\ num.int = number("+", 45, <<>>)
C17_NotAvailableReached == num.v = <<"N", "/", "A">> /\ num.int = NULL /\ num.float = NULL
C17_MissingReached == num.v = UNDEF /\ num.int = NULL /\ num.float = NULL
\* C18: the display name analyzeFile returns is the sysname when the capture
\* has one, else the hostname of its first prompt when it has one, else null:
\* the base name of the file is not used.
empty(x) == x = NULL \/ x = <<>> \/ x = UNDEF

returned(k) == results[Cardinality({ i \in okFiles : i <= k })]

firstNonEmpty(a, b, c) == IF ~empty(a) THEN a ELSE IF ~empty(b) THEN b ELSE c

C18_NameOrNull ==
  \A k \in okFiles :
    /\ Len(results) >= Cardinality({ i \in okFiles : i <= k })
    /\ returned(k).deviceName =
         firstNonEmpty(outcome[k].json.sysname, outcome[k].json.hostname, NULL)

\* a capture with no sysname line and no prompt, analysed with success
C18_Witness ==
  /\ pc = "done"
  /\ \E k \in okFiles :
       /\ empty(outcome[k].json.sysname) /\ empty(outcome[k].json.hostname)
       /\ returned(k).deviceName = NULL
       /\ outcome[k].json.interfaces # <<>>

C18_SysnameFirstReached ==
  \E k \in okFiles :
    /\ ~empty(outcome[k].json.sysname) /\ ~empty(outcome[k].json.hostname)
    /\ outcome[k].json.sysname # outcome[k].json.hostname
    /\ returned(k).deviceName = outcome[k].json.sysname

C18_HostnameReached ==
  \E k \in okFiles :
    /\ empty(outcome[k].json.sysname)
    /\ returned(k).deviceName = outcome[k].json.hostname /\ returned(k).deviceName # NULL

\* C18 as stated: the name falls back to the base name of the file and is
\* never empty or null.
C18_AsClaimed ==
  \A k \in okFiles :
    /\ Len(results) >= Cardinality({ i \in okFiles : i <= k })
    /\ returned(k).deviceName =
         firstNonEmpty(outcome[k].json.sysname, outcome[k].json.hostname, <<files[k].path.base>>)
    /\ ~empty(returned(k).deviceName)
\* C19: a sighting of a registered interface by the interface brief, the
\* ethernet brief, the ip interface or the configuration stanza extractor
\* changes only fields of that extractor, to values the chunk holds: the
\* name as first spelled, the other fields, the order of the fields already
\* set and the records the chunk does not name are as before, and no field
\* goes back to null or undefined.
Supplies ==
  [ p_display_interface_brief |-> {"status", "protocol", "in_util", "out_util"},
    p_display_interface_ethernet_brief |-> {"duplex", "bandwidth_mbps"},
    p_display_ip_interface |-> {"ip", "mask", "vpn_instance"},
    p_display_current_configuration |-> {"description", "ip", "mask", "vpn_instance", "bandwidth_mbps"} ]

Fields ==
  {"status", "protocol", "in_util", "out_util", "description", "ip", "mask",
   "duplex", "bandwidth_mbps", "vpn_instance"}

inText(text, v) ==
  \A i \in 1..Len(v) : \E n \in 1..Len(text) : v[i] \in Range(text[n])

heldBy(text, f, v) ==
  CASE f = "duplex" -> v \in {<<"FULL">>, <<"HALF">>}
    [] f = "bandwidth_mbps" -> v[1] = "number"
    [] OTHER -> v # <<>> /\ inText(text, v)

names(text, name) ==
  \E n \in 1..Len(text) : \E k \in 1..Len(text[n]) : lowerTok(text[n][k]) \in Range(lower(name))

isPrefix(a, b) == Len(a) <= Len(b) /\ SubSeq(b, 1, Len(a)) = a

frame(before, after, fn, text) ==
  /\ Len(after) >= Len(before)
  /\ \A i \in 1..Len(before) :
       /\ after[i].name = before[i].name
       /\ isPrefix(before[i].order, after[i].order)
       /\ ~names(text, before[i].name) => after[i] = before[i]
       /\ \A f \in Fields :
            after[i][f] # before[i][f] =>
              /\ f \in Supplies[fn]
              /\ after[i][f] \notin {NULL, UNDEF}
              /\ heldBy(text, f, after[i][f])

\* the stanzas of the configuration text, one after the other
RECURSIVE stanzaFrames(_, _)
stanzaFrames(s, blks) ==
  \/ blks = <<>>
  \/ /\ frame(s.m.interfaces, cfgIface(s, Head(blks)).m.interfaces,
              "p_display_current_configuration", Head(blks))
     /\ stanzaFrames(cfgIface(s, Head(blks)), Tail(blks))

sighting ==
  /\ pc = "blocks" /\ bi <= Len(blk) /\ ~skipped(blk[bi])
  /\ routeFn(detectCommand(blk[bi])) \in DOMAIN Supplies

configRead == pc = "blocks" /\ bi = 1 /\ calls # <<>> /\ calls[1].pass = "pre"

C19_SightingFrame ==
  /\ [](configRead =>
         stanzaFrames(parseStart(files[fi].raw, <<>>),
                      ifaceBlocks(cleanTailPrompt(untilFault(calls[1].text)))))
  /\ [][sighting =>
         frame(st.m.interfaces, st'.m.interfaces,
               routeFn(detectCommand(blk[bi])), stripCommandFromBlock(blk[bi]))]_vars

\* GE1 is registered by the interface brief, then seen by the ip interface
\* chunk twice, the second time as "ge1" and without an address
C19_Witness ==
  /\ pc = "parsed"
  /\ Len(calls) = 2
  /\ calls[1].fn = "p_display_interface_brief" /\ calls[2].fn = "p_display_ip_interface"
  /\ \E i \in 1..Len(itfs) :
       /\ itfs[i].name = <<"GE1">>
       /\ itfs[i].status = <<"up">>
       /\ itfs[i].ip = <<"1.1.1.1">>
       /\ itfs[i].vpn_instance = <<"A1">>

C19_EthernetReached ==
  /\ pc = "parsed"
  /\ \E i \in 1..Len(itfs) :
       /\ itfs[i].name = <<"GE1">> /\ itfs[i].description = <<"WAN">>
       /\ itfs[i].duplex = <<"FULL">> /\ itfs[i].bandwidth_mbps = number("+", 40000, <<>>)
  /\ \E i \in 1..Len(itfs) : itfs[i].bandwidth_mbps = number("+", 40, <<>>)

C19_StanzaReached ==
  /\ configRead
  /\ \E i \in 1..Len(itfs) : itfs[i].name = <<"GE1">> /\ itfs[i].description = <<"LAN">>
\* C20: stripCommandFromBlock tests only the first line of the chunk, and not
\* at all in a chunk of one line.  The text given to an extractor is without
\* the command line when that line opens a chunk of two lines or more; a
\* command line that follows a bare prompt or an Info/Warning/Error line, or
\* that is the whole chunk, stays in the text.
labelLine(b) == trim(b[firstNonTrivial(b)])

holdsLine(text, l) == \E n \in 1..Len(text) : trim(text[n]) = l

blockCallsMade == { k \in 1..Len(calls) : calls[k].pass = "block" }

C20_FirstLineStripped ==
  parsing =>
    \A k \in blockCallsMade :
      LET b == blk[calls[k].i]
      IN  /\ calls[k].text = stripCommandFromBlock(b)
          /\ (firstNonTrivial(b) = 1 /\ Len(b) > 1) => ~holdsLine(calls[k].text, labelLine(b))
          /\ (firstNonTrivial(b) > 1 \/ Len(b) = 1) => holdsLine(calls[k].text, labelLine(b))

\* "Info: x", then "display version", then its output: p_display_version is
\* given all three lines
C20_Witness ==
  /\ pc = "parsed"
  /\ \E k \in blockCallsMade :
       /\ calls[k].fn = "p_display_version"
       /\ firstNonTrivial(blk[calls[k].i]) = 2
       /\ SysMessage(blk[calls[k].i][1])
       /\ calls[k].text = blk[calls[k].i]
       /\ holdsLine(calls[k].text, cVer)

\* C20 as stated: the text given to an extractor never holds the command
\* line that gave the chunk its label.
C20_AsClaimed ==
  parsing =>
    \A k \in blockCallsMade : ~holdsLine(calls[k].text, labelLine(blk[calls[k].i]))
\* C21: the configuration text is read in the pre-pass, before every chunk
\* of the block pass, wherever it stands in the capture.  So for an
\* interface field that a display chunk sets (ip, mask, vpn_instance,
\* bandwidth_mbps), the returned value is the one the display chunks leave,
\* taken in the order of the capture, whatever the configuration wrote.
RECURSIVE displayOnly(_, _)
displayOnly(s, k) ==
  IF k > Len(calls) THEN s
  ELSE IF calls[k].pass = "block" /\ calls[k].fn # "p_display_current_configuration"
       THEN displayOnly(call(calls[k].fn, calls[k].text, s).st, k + 1)
  ELSE displayOnly(s, k + 1)

shown == displayOnly(parseStart(files[fi].raw, <<>>), 1).m.interfaces

BothWrite == {"ip", "mask", "vpn_instance", "bandwidth_mbps"}

C21_BandwidthReached ==
  /\ pc = "parsed"
  /\ calls # <<>> /\ calls[1].pass = "pre"
  /\ \E i \in 1..Len(itfs) :
       /\ itfs[i].bandwidth_mbps = number("+", 40000, <<>>)
       /\ itfs[i].vpn_instance = <<"vpn-instance">>
\* C22: in one parse the configuration extractor is called at most once;
\* when it is called, that call is the first extractor call of the parse
\* and belongs to the pre-pass; the block pass never calls it.
configCalls == { k \in 1..Len(calls) : calls[k].fn = "p_display_current_configuration" }

C22_ConfigOnceAndFirst ==
  /\ Cardinality(configCalls) <= 1
  /\ \A k \in configCalls : k = 1 /\ calls[k].pass = "pre"
  /\ \A k \in 1..Len(calls) : calls[k].pass = "pre" => k = 1

\* a brief table, then the chunk "dis cur": the configuration is read first
C22_Witness ==
  /\ pc = "parsed"
  /\ Len(blk) = 2
  /\ isDisCur(detectCommand(blk[2]))
  /\ Len(calls) = 2
  /\ calls[1].pass = "pre" /\ calls[1].text = stripCommandFromBlock(blk[2])
  /\ calls[2].pass = "block" /\ calls[2].i = 1
  /\ calls[2].fn = "p_display_interface_brief"
\* C23: the VRF list holds at most one entry per name after every extractor
\* call (display router id vpn-instance, display vpn-instance, the stanzas
\* of the configuration), so the final uniqBy of vrfs by name removes nothing.
vrfsNow == st.m.vrfs

C23_OneEntryPerVrf ==
  /\ \A i \in 1..Len(vrfsNow) : \A j \in 1..Len(vrfsNow) :
       vrfsNow[i].name = vrfsNow[j].name => i = j
  /\ uniqBy(vrfsNow, "name") = vrfsNow

vrfFns == {"p_display_router_id_vrf", "p_display_vpn_instance", "p_display_current_configuration"}

\* the VRF A1 was seen by a stanza of the configuration and then by a
\* display chunk, and is one entry holding what both wrote
C23_Witness ==
  /\ pc = "parsed"
  /\ Len(calls) = 2
  /\ calls[1].pass = "pre"
  /\ calls[2].fn \in {"p_display_router_id_vrf", "p_display_vpn_instance"}
  /\ \E i \in 1..Len(vrfsNow) :
       /\ vrfsNow[i].name = <<"A1">>
       /\ vrfsNow[i].router_id = <<"1.1.1.1">>
       /\ vrfsNow[i].af = <<<<"ipv6">>>>
       /\ calls[2].fn = "p_display_router_id_vrf"

\* two display chunks of different kinds name the same VRF
C23_TwoDisplaysReached ==
  /\ pc = "parsed"
  /\ { calls[k].fn : k \in 1..Len(calls) } = {"p_display_router_id_vrf", "p_display_vpn_instance"}
  /\ Len(vrfsNow) = 2
  /\ \E i \in 1..2 : vrfsNow[i].router_id # NULL /\ vrfsNow[i].af # NULL

\* C27: for every name of identity.router_ids the VRF list holds an entry
\* of that name; its router_id is the mapped address, or null when a later
\* configuration stanza of the same name without router-id replaced it.
ridNames == { st.m.router_ids[k][1] : k \in 1..Len(st.m.router_ids) }
ridOf(name) == st.m.router_ids[getKey(st.m.router_ids, name)][2]
entryOf(name) == vrfsNow[vrfIndex(vrfsNow, name)]

C27_MappedVrfListed ==
  \A name \in ridNames :
    /\ vrfIndex(vrfsNow, name) > 0
    /\ entryOf(name).router_id \in {ridOf(name), NULL}
    /\ entryOf(name).router_id = NULL =>
         /\ calls # <<>> /\ calls[1].pass = "pre"
         /\ Len(stanzas(calls[1].text, 1, {<<"vpn-instance", "\\s", "\\S">>}, {"#"})) >= 2

\* the configuration holds "vpn-instance A1" with router-id 1.1.1.1 and
\* then "vpn-instance A1" without: the mapping keeps the address and the
\* entry has lost it
C27_Witness ==
  /\ pc = "parsed"
  /\ <<"A1">> \in ridNames
  /\ ridOf(<<"A1">>) = <<"1.1.1.1">>
  /\ vrfIndex(vrfsNow, <<"A1">>) > 0
  /\ entryOf(<<"A1">>).router_id = NULL
  /\ entryOf(<<"A1">>).af = <<<<"ipv4">>>>

\* C27 as stated: the entry's router_id equals the mapped address.
C27_AsClaimed ==
  \A name \in ridNames :
    /\ vrfIndex(vrfsNow, name) > 0
    /\ entryOf(name).router_id = ridOf(name)
\* C24: a row of a column table contributes a record exactly when splitting
\* it on runs of two or more spaces gives the minimum number of columns
\* (3 for display interface brief, 4 for display bfd session); a row whose
\* columns stand one space apart is one column and contributes nothing.
wide(t) == Cardinality({ i \in 1..Len(t) : t[i] = "  " }) + 1
cells(t) == SelectSeq(t, LAMBDA c : c \notin Ws)

tableRows(fn) ==
  UNION { { trim(calls[k].text[i]) : i \in 1..Len(calls[k].text) } :
            k \in { j \in blockCallsMade : calls[j].fn = fn /\ ~hasFault(calls[j].text) } }
briefRows == { t \in tableRows("p_display_interface_brief") : isIfaceRow(t) }
bfdRows == { t \in tableRows("p_display_bfd_session_all") : startsWithDigit(t) }

hasInterface(n) == \E i \in 1..Len(itfs) : lower(itfs[i].name) = lower(n)
hasSession(t) ==
  \E i \in 1..Len(st.m.bfd_sessions) :
    /\ st.m.bfd_sessions[i].local = <<cells(t)[1]>>
    /\ st.m.bfd_sessions[i].remote = <<cells(t)[2]>>

C24_WideColumnsOnly ==
  pc = "parsed" =>
    /\ \A t \in briefRows : hasInterface(<<t[1]>>) <=> \E u \in briefRows : u[1] = t[1] /\ wide(u) >= 3
    /\ \A t \in bfdRows : hasSession(t) <=> \E u \in bfdRows : cells(u) = cells(t) /\ wide(u) >= 4

\* "GE2 up down" and "5 4 2.2.2.2 up", columns one space apart, were read
\* and left no record
C24_Witness ==
  /\ pc = "parsed"
  /\ \E t \in briefRows : wide(t) = 1 /\ Len(cells(t)) = 3 /\ ~hasInterface(<<t[1]>>)
  /\ \E t \in bfdRows : wide(t) = 1 /\ Len(cells(t)) = 4 /\ ~hasSession(t)

\* C24 as stated: a row with the minimum number of columns one space apart
\* contributes its record.
C24_AsClaimed ==
  pc = "parsed" =>
    /\ \A t \in briefRows : Len(cells(t)) >= 3 => hasInterface(<<t[1]>>)
    /\ \A t \in bfdRows : Len(cells(t)) >= 4 => hasSession(t)
\* C25: for an input made of an optional minus sign, digits and then
\* characters that are not digits, toInt and toFloat return a number with
\* the sign of the input; when the trailing characters are none of ".",
\* "-" and digits, the number is the one the digits write.
NonNumeric == Chars \ (DigitChars \cup {"-", "."})
leadDigits(v) == digitRun(unsigned(v))
trailOf(v) == SubSeq(unsigned(v), Len(leadDigits(v)) + 1, Len(unsigned(v)))
isReading(v) ==
  /\ v \notin {UNDEF, NULL}
  /\ leadDigits(v) # <<>>
  /\ trailOf(v) # <<>> => Head(trailOf(v)) \notin DigitChars
plainTrail(v) == \A i \in 1..Len(trailOf(v)) : trailOf(v)[i] \in NonNumeric
signIn(v) == IF Head(v) = "-" THEN "-" ELSE "+"

C25_SignKept ==
  isReading(num.v) =>
    /\ num.int # NotRead =>
         /\ num.int # NULL /\ num.int[2] = signIn(num.v)
         /\ plainTrail(num.v) => num.int = number(signIn(num.v), valueOf(0, leadDigits(num.v)), <<>>)
    /\ num.float # NotRead =>
         /\ num.float # NULL /\ num.float[2] = signIn(num.v)
         /\ plainTrail(num.v) => num.float = number(signIn(num.v), valueOf(0, leadDigits(num.v)), <<>>)

\* "-4A" (a negative reading with its unit) was given to both
C25_Witness ==
  /\ num.v = <<"-", "4", "A">>
  /\ num.int = number("-", 4, <<>>)
  /\ num.float = number("-", 4, <<>>)
\* C26: a chunk whose first line stripCommandFromBlock removes is labelled
\* with the command text when the line opens with the command; when a
\* prompt stands before the command on that line, the label is the whole
\* line with the prompt, no entry of ROUTES matches it and no extractor is
\* called for the chunk.
strippedAsCommand(b) == Len(b) > 1 /\ COMMAND_REGEX(b[1])
promptBefore(b) == cmdMatchLen(trim(b[1])) = 0

C26_LabelOfStrippedLine ==
  parsing =>
    \A n \in 1..Len(blk) :
      strippedAsCommand(blk[n]) =>
        IF promptBefore(blk[n])
        THEN /\ detectCommand(blk[n]) = trim(blk[n][1])
             /\ ~routed(blk[n])
             /\ \A k \in blockCallsMade : calls[k].i # n
        ELSE detectCommand(blk[n]) = commandTextOf(blk[n][1])

\* "<R2>display version" and its output: the line was stripped, the label
\* holds the prompt and the output is stored as unrecognized
C26_Witness ==
  /\ pc = "parsed"
  /\ \E n \in 1..Len(blk) :
       /\ strippedAsCommand(blk[n])
       /\ blk[n][1] = <<"<", "R2", ">", "display", " ", "version">>
       /\ detectCommand(blk[n]) = blk[n][1]
       /\ \A k \in blockCallsMade : calls[k].i # n
       /\ entriesAt(normalizeKey(blk[n][1])) # <<>>
       /\ entriesAt(normalizeKey(blk[n][1]))[1].raw = cleanTailPrompt(Tail(blk[n]))

\* C26 as stated: the label of such a chunk is the display command, without
\* the prompt, and the chunk is dispatched.
C26_AsClaimed ==
  parsing =>
    \A n \in 1..Len(blk) :
      strippedAsCommand(blk[n]) =>
        /\ cmdMatchLen(detectCommand(blk[n])) > 0
        /\ (~skipped(blk[n]) /\ n < bi) => (routed(blk[n]) <=> \E k \in blockCallsMade : calls[k].i = n)
\* C28: every head line of a display eth-trunk chunk appends an entry,
\* whatever the list holds, and a display lacp peer line appends one only
\* when no entry has its id.  So the entries appended by lacp peer lines
\* have distinct ids and name no trunk listed before them, and the entries
\* appended by head lines are as many as the head lines read.
trunksNow == st.m.eth_trunks
fromHead == { i \in 1..Len(trunksNow) : trunksNow[i].work_mode # UNDEF }
fromLacp == { i \in 1..Len(trunksNow) : trunksNow[i].work_mode = UNDEF }
RECURSIVE headLines(_)
headLines(b) ==
  IF b = <<>> THEN 0
  ELSE (IF headMatch(trim(Head(b))) THEN 1 ELSE 0) + headLines(Tail(b))
RECURSIVE headsRead(_)
headsRead(k) ==
  IF k = 0 THEN 0
  ELSE headsRead(k - 1)
       + (IF calls[k].fn = "p_display_eth_trunk" THEN headLines(untilFault(calls[k].text)) ELSE 0)

C28_HeadLinesAppend ==
  /\ Cardinality(fromHead) = headsRead(Len(calls))
  /\ \A i \in fromLacp : \A j \in 1..Len(trunksNow) :
       (trunksNow[j].id = trunksNow[i].id /\ j # i) => (j > i /\ j \in fromHead)

\* display lacp peer, then display eth-trunk, both naming trunk 1: two
\* entries of id 1, the LACP fields on the first and the state on the second
C28_Witness ==
  /\ pc = "parsed"
  /\ Len(calls) = 2
  /\ calls[1].fn = "p_display_lacp_peer" /\ calls[2].fn = "p_display_eth_trunk"
  /\ \E i \in fromLacp : \E j \in fromHead :
       /\ trunksNow[i].id = <<"1">> /\ trunksNow[j].id = <<"1">>
       /\ trunksNow[i].type = <<"LACP">> /\ trunksNow[i].actor # UNDEF
       /\ trunksNow[j].type = <<"Eth-Trunk">> /\ trunksNow[j].actor = UNDEF

\* display eth-trunk, then display lacp peer: one entry of id 1 with both
C28_TrunkFirstReached ==
  /\ pc = "parsed"
  /\ Len(calls) = 2
  /\ calls[1].fn = "p_display_eth_trunk" /\ calls[2].fn = "p_display_lacp_peer"
  /\ Len(trunksNow) = 1
  /\ trunksNow[1].type = <<"LACP">> /\ trunksNow[1].actor = <<"4">>
  /\ trunksNow[1].members = <<<<"GE1">>, <<"GE2">>>>
  /\ trunksNow[1].master_state = <<"up">>

\* C28 as stated: at most one entry per trunk id in the returned model.
C28_AsClaimed ==
  pc = "parsed" =>
    \A i \in 1..Len(trunksNow) : \A j \in 1..Len(trunksNow) :
      trunksNow[i].id = trunksNow[j].id => i = j
\* C29: display ip routing-table statistics appends a summary exactly when
\* the chunk gives a total or at least one protocol row below a line that
\* opens with "Proto"; the count of the old format alone appends nothing,
\* and an appended summary that holds that count holds a total too.
summaries == st.m.table_summary
statsCalls == { k \in blockCallsMade : calls[k].fn = "p_display_ip_routing_table_statistics" }
readOf(k) == untilFault(calls[k].text)
givesTotal(b) == \E i \in 1..Len(b) : \E j \in 1..Len(b[i]) : matchEnd(b[i], j, TotalPat) > 0
givesRows(b) ==
  \E i \in 2..Len(b) : \E j \in i..Len(b) :
    /\ b[i] # <<>> /\ b[i][1] = "Proto"
    /\ \A n \in (i + 1)..j : b[n] = <<>> \/ b[n][1] # "Proto"
    /\ j > i /\ rowMatch(trimStart(b[j]))
givesOldCount(b) ==
  \E i \in 1..Len(b) : \E j \in 1..Len(b[i]) :
    matchEnd(b[i], j, SumColon) > 0 \/ matchEnd(b[i], j, SumSpace) > 0

C29_TotalOrRowsAppend ==
  pc = "parsed" =>
    /\ Len(summaries) = Cardinality({ k \in statsCalls : givesTotal(readOf(k)) \/ givesRows(readOf(k)) })
    /\ \A i \in 1..Len(summaries) :
         summaries[i].summary_prefixes.kind = "number" => summaries[i].total_routes # NULL

\* a chunk with "Summary Prefixes: 45" and nothing else was read: no summary
\* is appended, where the v3 extractor appends one holding 45
C29_Witness ==
  /\ pc = "parsed"
  /\ Len(calls) = 1 /\ statsCalls = {1}
  /\ givesOldCount(calls[1].text) /\ ~givesTotal(calls[1].text) /\ ~givesRows(calls[1].text)
  /\ summaries = <<>>
  /\ Len(p_display_ip_routing_table_statistics_v3(calls[1].text, st).m.table_summary) = 1
  /\ p_display_ip_routing_table_statistics_v3(calls[1].text, st).m.table_summary[1].summary_prefixes.count
       = number("+", 45, <<>>)

\* rows below "Proto" and no total: one summary with the rows
C29_RowsReached ==
  /\ pc = "parsed"
  /\ Len(calls) = 1 /\ statsCalls = {1}
  /\ Len(summaries) = 1
  /\ summaries[1].total_routes = NULL
  /\ summaries[1].vrf = <<"A1">>
  /\ Len(summaries[1].summary_prefixes.rows) = 1
  /\ summaries[1].summary_prefixes.rows[1].total = number("+", 4, <<>>)

\* a total and the count of the old format: one summary holding both
C29_TotalAndCountReached ==
  /\ pc = "parsed"
  /\ Len(summaries) = 1
  /\ summaries[1].total_routes = number("+", 4, <<>>)
  /\ summaries[1].summary_prefixes.count = number("+", 5, <<>>)

\* C29 as stated: a total, a protocol row or the count of the old format
\* appends one summary.
C29_AsClaimed ==
  pc = "parsed" =>
    Len(summaries) = Cardinality({ k \in statsCalls :
                        givesTotal(readOf(k)) \/ givesRows(readOf(k)) \/ givesOldCount(readOf(k)) })
\* C30: in the v3 analyzer the map of ensureInterface outlives parseFile.
\* A call for a name not in the map pushes a record of that name and
\* returns it, so every call of the first file returns a record of the
\* requested name.  A call in a later file for a name that only an earlier
\* file put in the map gets the index of that file: undefined, or the record
\* of another name.
firstInFile(k) ==
  \A j \in 1..(k - 1) :
    calls[j].file = calls[k].file => lower(calls[j].name) # lower(calls[k].name)
staleCalls == { k \in 1..Len(calls) : calls[k].known /\ firstInFile(k) }
rightRecord(k) == calls[k].got # UNDEF /\ lower(calls[k].got) = lower(calls[k].name)

C30_IndexOfEarlierFile ==
  /\ \A k \in 1..Len(calls) :
       /\ ~calls[k].known => rightRecord(k) /\ calls[k].got = calls[k].name
       /\ calls[k].file = 1 => rightRecord(k)
       /\ calls[k].idx > 0 => calls[k].idx <= Len(st.m.interfaces) \/ calls[k].file < fi
  /\ \A k \in staleCalls : calls[k].file > 1 /\ ~rightRecord(k)

\* r1 lists GE1 first; r3 lists eth1, then GE1: the call for GE1 in r3
\* returns the record of eth1, which gets GE1's status
C30_Witness ==
  /\ pc = "v3 idle" /\ fi = 3
  /\ files[1].base = <<"r1">> /\ files[2].base = <<"r3">>
  /\ \E k \in staleCalls :
       /\ calls[k].file = 2
       /\ calls[k].name = <<"GE1">> /\ calls[k].got = <<"eth1">>
  /\ Len(st.m.interfaces) = 1
  /\ st.m.interfaces[1].name = <<"eth1">> /\ st.m.interfaces[1].status = <<"down">>

\* r1, then r2 whose only row is GE2: the call returns undefined, the
\* TypeError is stored and r2 has no interface
C30_UndefinedReached ==
  /\ pc = "v3 idle" /\ fi = 3
  /\ files[1].base = <<"r1">> /\ files[2].base = <<"r2">>
  /\ calls[Len(calls)].got = UNDEF
  /\ st.m.interfaces = <<>>
  /\ entriesAt(normalizeKey(cBrief)) # <<>>
  /\ entriesAt(normalizeKey(cBrief))[1].error = <<"TypeError">>

\* C30 as stated: every call returns a record of the model being built that
\* carries the requested name.
C30_AsClaimed == \A k \in 1..Len(calls) : rightRecord(k)
====
